---- MODULE Spec2Model ----
(***************************************************************************)
(* WAL segment addressing and timeline/backup coordination of the          *)
(* CloudNativePG restic backup plugin: internal/wal/manager.go, the backup *)
(* handler that drives it, and the restic client interface it consumes.    *)
(*                                                                         *)
(* Strings are sequences of one-character strings, so that the regular     *)
(* expression, filepath.Base, strconv.ParseUint and fmt.Sprintf("%d") are  *)
(* computed character by character.  Unsigned integers are little-endian   *)
(* sequences of 16-bit limbs (a uint64 has four, a uint32 two), so that     *)
(* 0xFFFFFFFF is representable and overflow is detected as the code does.   *)
(***************************************************************************)
EXTENDS Integers, Sequences, FiniteSets, TLC

(***************************************************************************)
(* Characters and string literals                                          *)
(***************************************************************************)
UpperHexDigits == <<"0","1","2","3","4","5","6","7","8","9","A","B","C","D","E","F">>
LowerHexDigits == <<"0","1","2","3","4","5","6","7","8","9","a","b","c","d","e","f">>
DecDigits == <<"0","1","2","3","4","5","6","7","8","9">>

Range(s) == {s[i] : i \in 1..Len(s)}

\* The character class [0-9A-F] of walFileRegex.
UpperHexClass == Range(UpperHexDigits)

\* Width of one group of walFileRegex: {8}.
GroupLen == 8
\* Number of groups of walFileRegex.
NumGroups == 3

IndexOf(seq, c) == CHOOSE i \in 1..Len(seq) : seq[i] = c

(***************************************************************************)
(* Unsigned integers as limbs                                               *)
(***************************************************************************)
LimbBase == 2^16
Limbs64 == 4
Limbs32 == 2

Zero(n) == [i \in 1..n |-> 0]
IsZero(v) == \A i \in 1..Len(v) : v[i] = 0

\* v * m + c over limbs, least significant first; carry is what does not fit.
RECURSIVE MulAddLimbs(_, _, _)
MulAddLimbs(v, m, c) ==
    IF v = <<>> THEN [v |-> <<>>, carry |-> c]
    ELSE LET cur  == Head(v) * m + c
             rest == MulAddLimbs(Tail(v), m, cur \div LimbBase)
         IN  [v |-> <<cur % LimbBase>> \o rest.v, carry |-> rest.carry]

\* v divided by a small d: quotient limbs and remainder.
RECURSIVE DivSmall(_, _)
DivSmall(v, d) ==
    IF v = <<>> THEN [q |-> <<>>, r |-> 0]
    ELSE LET hi  == DivSmall(Tail(v), d)
             cur == hi.r * LimbBase + Head(v)
         IN  [q |-> <<cur \div d>> \o hi.q, r |-> cur % d]

\* v > 2^bitSize - 1
ExceedsBits(v, bitSize) == \E i \in 1..Len(v) : i > bitSize \div 16 /\ v[i] # 0

(***************************************************************************)
(* strconv.ParseUint(s, 16, bitSize)                                        *)
(***************************************************************************)
\* The characters base 16 accepts, with their digit values.
HexValue ==
    [c \in Range(UpperHexDigits) \cup Range(LowerHexDigits) |->
        IF c \in Range(UpperHexDigits) THEN IndexOf(UpperHexDigits, c) - 1
        ELSE IndexOf(LowerHexDigits, c) - 1]

\* The digit value of one character in base 16, or -1 for a syntax error.
DigitVal(c) == IF c \in DOMAIN HexValue THEN HexValue[c] ELSE -1

RECURSIVE ParseUintLoop(_, _, _)
ParseUintLoop(s, n, bitSize) ==
    IF s = <<>> THEN [err |-> "", val |-> n]
    ELSE LET d == DigitVal(Head(s)) IN
         IF d < 0 THEN [err |-> "syntax", val |-> Zero(Limbs64)]
         ELSE LET n1 == MulAddLimbs(n, 16, d) IN
              IF n1.carry # 0 \/ ExceedsBits(n1.v, bitSize)
              THEN [err |-> "range", val |-> Zero(Limbs64)]
              ELSE ParseUintLoop(Tail(s), n1.v, bitSize)

\* A conversion that accepts one limb less than the bit size asks for.
MutParseUintNarrow(s, bitSize) ==
    IF s = <<>> THEN [err |-> "syntax", val |-> Zero(Limbs64)]
    ELSE ParseUintLoop(s, Zero(Limbs64), bitSize - 16)

ParseUint(s, bitSize) ==
    IF s = <<>> THEN [err |-> "syntax", val |-> Zero(Limbs64)]
    ELSE ParseUintLoop(s, Zero(Limbs64), bitSize)

\* The conversion Timeline(timeline): uint64 to uint32 keeps the low 32 bits.
ToUint32(v) == SubSeq(v, 1, Limbs32)

(***************************************************************************)
(* fmt.Sprintf("%d", v)                                                     *)
(***************************************************************************)
RECURSIVE FormatUint(_)
FormatUint(v) ==
    IF IsZero(v) THEN <<>>
    ELSE LET dm == DivSmall(v, 10) IN FormatUint(dm.q) \o <<DecDigits[dm.r + 1]>>

SprintfD(v) == IF IsZero(v) THEN <<"0">> ELSE FormatUint(v)

(***************************************************************************)
(* walFileRegex and ParseWALFileName                                        *)
(***************************************************************************)
\* walFileRegex.FindStringSubmatch(s): <<whole, g1, g2, g3>>, or <<>> for nil.
\* The pattern is anchored at both ends, so it matches the whole of s or nothing.
MutFindStringSubmatchLower(s) ==
    IF /\ Len(s) = NumGroups * GroupLen
       /\ \A i \in 1..Len(s) : s[i] \in UpperHexClass \cup Range(LowerHexDigits)
    THEN <<s>> \o [g \in 1..NumGroups |-> SubSeq(s, (g - 1) * GroupLen + 1, g * GroupLen)]
    ELSE <<>>

FindStringSubmatch(s) ==
    IF /\ Len(s) = NumGroups * GroupLen
       /\ \A i \in 1..Len(s) : s[i] \in UpperHexClass
    THEN <<s>> \o [g \in 1..NumGroups |-> SubSeq(s, (g - 1) * GroupLen + 1, g * GroupLen)]
    ELSE <<>>

\* walFileRegex.FindString(s): the matched text, or the empty string.
FindString(s) == LET m == FindStringSubmatch(s) IN IF m = <<>> THEN <<>> ELSE m[1]

NoSegment == [Timeline |-> Zero(Limbs32), LogicalID |-> Zero(Limbs64), SegmentID |-> Zero(Limbs64)]

ErrInvalidFormat == "invalid WAL file name format"
ErrInvalidTimeline == "invalid timeline"
ErrInvalidLogicalID == "invalid logical ID"
ErrInvalidSegmentID == "invalid segment ID"

MutParseWALFileNameTimeline16(name) ==
    LET matches == FindStringSubmatch(name) IN
    IF matches = <<>> THEN [err |-> ErrInvalidFormat, seg |-> NoSegment]
    ELSE [err |-> "",
          seg |-> [Timeline  |-> <<ParseUint(matches[2], 32).val[1], 0>>,
                   LogicalID |-> ParseUint(matches[3], 64).val,
                   SegmentID |-> ParseUint(matches[4], 64).val]]

MutParseWALFileNameSwapped(name) ==
    LET matches == FindStringSubmatch(name) IN
    IF matches = <<>> THEN [err |-> ErrInvalidFormat, seg |-> NoSegment]
    ELSE [err |-> "",
          seg |-> [Timeline  |-> ToUint32(ParseUint(matches[2], 32).val),
                   LogicalID |-> ParseUint(matches[4], 64).val,
                   SegmentID |-> ParseUint(matches[3], 64).val]]

ParseWALFileName(name) ==
    LET matches == FindStringSubmatch(name) IN
    IF matches = <<>> THEN [err |-> ErrInvalidFormat, seg |-> NoSegment]
    ELSE LET timeline == ParseUint(matches[2], 32) IN
         IF timeline.err # "" THEN [err |-> ErrInvalidTimeline, seg |-> NoSegment]
         ELSE LET logicalID == ParseUint(matches[3], 64) IN
              IF logicalID.err # "" THEN [err |-> ErrInvalidLogicalID, seg |-> NoSegment]
              ELSE LET segmentID == ParseUint(matches[4], 64) IN
                   IF segmentID.err # "" THEN [err |-> ErrInvalidSegmentID, seg |-> NoSegment]
                   ELSE [err |-> "",
                         seg |-> [Timeline  |-> ToUint32(timeline.val),
                                  LogicalID |-> logicalID.val,
                                  SegmentID |-> segmentID.val]]

(***************************************************************************)
(* String literals of the program and the inputs the model draws from       *)
(***************************************************************************)
TagTypeWal == <<"t","y","p","e",":","w","a","l">>
TagTypeFull == <<"t","y","p","e",":","f","u","l","l">>
PrefixTimeline == <<"t","i","m","e","l","i","n","e",":">>
PrefixLogicalID == <<"l","o","g","i","c","a","l","_","i","d",":">>
PrefixSegmentID == <<"s","e","g","m","e","n","t","_","i","d",":">>
PrefixWalFile == <<"w","a","l","_","f","i","l","e",":">>

\* Segment names used as inputs: timeline 1 segment 1, timeline 2 segment 255.
NameT1 == <<"0","0","0","0","0","0","0","1","0","0","0","0","0","0","0","0","0","0","0","0","0","0","0","1">>
NameT2 == <<"0","0","0","0","0","0","0","2","0","0","0","0","0","0","0","0","0","0","0","0","0","0","F","F">>
NameT3 == <<"0","0","0","0","0","0","0","3","0","0","0","0","0","0","0","0","0","0","0","0","0","0","0","1">>
NameInvalid == <<"i","n","v","a","l","i","d">>
DirWal == <<"/","w","a","l","/">>
DirData == <<"/","d","a","t","a">>

\* Inputs of archive(): two valid segments, one with a trailing separator, an
\* invalid base name, and the empty path.
WalPaths == {DirWal \o NameT1, DirWal \o NameT2, DirWal \o NameT2 \o <<"/">>,
             DirWal \o NameInvalid, <<>>}
\* Inputs of createBackup().
DataDirs == {DirData, <<>>}

DirRestore == <<"/","r","e","s","t","o","r","e">>
SnapshotIDTest == <<"t","e","s","t","-","s","n","a","p","s","h","o","t","-","1">>
\* Inputs of restoreBackup(): every pairing of a snapshot id or the empty
\* string with a target directory or the empty string.
RestoreBackupInputs ==
    [snapshotID : {SnapshotIDTest, <<>>}, targetDir : {DirRestore, <<>>}]
\* Inputs of restoreSegment(): two valid names, an invalid one and the empty
\* one, each with a target below /restore, and a target directly below the root.
RestoreWALInputs ==
    { [walFile |-> NameT1, targetPath |-> DirRestore \o <<"/">> \o NameT1],
      [walFile |-> NameT1, targetPath |-> <<"/","x">>],
      [walFile |-> NameT2, targetPath |-> DirRestore \o <<"/">> \o NameT2],
      [walFile |-> NameInvalid, targetPath |-> DirRestore \o <<"/">> \o NameInvalid],
      [walFile |-> <<>>, targetPath |-> DirRestore] }

(***************************************************************************)
(* path/filepath.Base                                                       *)
(***************************************************************************)
RECURSIVE StripTrailingSlashes(_)
StripTrailingSlashes(path) ==
    IF Len(path) > 0 /\ path[Len(path)] = "/"
    THEN StripTrailingSlashes(SubSeq(path, 1, Len(path) - 1))
    ELSE path

RECURSIVE LastSlash(_, _)
LastSlash(path, i) ==
    IF i >= 1 /\ path[i] # "/" THEN LastSlash(path, i - 1) ELSE i

Base(path) ==
    IF path = <<>> THEN <<".">>
    ELSE LET p == StripTrailingSlashes(path)
             i == LastSlash(p, Len(p))
             e == IF i >= 1 THEN SubSeq(p, i + 1, Len(p)) ELSE p
         IN  IF e = <<>> THEN <<"/">> ELSE e

(***************************************************************************)
(* path/filepath.Dir, for paths without "." and ".." elements and without   *)
(* repeated separators: the path up to its last separator, cleaned          *)
(***************************************************************************)
MutDirIdentity(path) == path

Dir(path) ==
    LET i == LastSlash(path, Len(path))
        d == SubSeq(path, 1, i)
        c == StripTrailingSlashes(d)
    IN  IF d = <<>> THEN <<".">> ELSE IF c = <<>> THEN <<"/">> ELSE c

(***************************************************************************)
(* Bounds of the model                                                      *)
(***************************************************************************)
\* Snapshots the store accepts in one behaviour.
MaxSnapshots == 2
\* Last instant of the clock.
MaxTime == 1

\* The callers of the handlers: one, whose store calls are separate steps.
Callers == {1}

(***************************************************************************)
(* State                                                                    *)
(***************************************************************************)
VARIABLES
    store,      \* the repository: snapshots [id, time, tags] in listing order
    nextId,     \* id the store gives to the next snapshot
    clock,      \* current time
    inflight,   \* per caller: the invocation in progress between two store calls
    last,       \* the invocation that returned most recently
    archived,   \* timeline of the segment archived most recently, <<>> if none
    cName,      \* codec: the name handed to ParseWALFileName
    cTriple,    \* codec: the triple cName was formatted from, <<>> if none
    cResult,    \* codec: what ParseWALFileName returned, <<>> before the call
    oNames,     \* codec: three names to be parsed and compared
    oSegs,      \* codec: what ParseWALFileName returned for each, <<>> before
    repoInit,   \* whether the restic repository has been initialised
    ctxDone,    \* per caller: whether the context the caller passes is cancelled
    restoreHandler, \* how the restore handler was built: with or without a client
    http        \* plugin: the request being served and its response

vars == <<store, nextId, clock, inflight, last, archived, cName, cTriple, cResult,
          oNames, oSegs,
          repoInit, ctxDone, restoreHandler, http>>
progVars == <<store, nextId, clock, inflight, last, archived>>
codecVars == <<cName, cTriple, cResult, oNames, oSegs>>
envVars == <<repoInit, ctxDone, restoreHandler>>
\* What an operation of the handlers and of the WAL manager leaves alone.
otherVars == <<codecVars, envVars, http>>

NoTimeline == <<>>
\* Segment.BackupID before a snapshot is chosen: the empty string.
NoBackupID == <<>>
Idle == [pc |-> "idle", op |-> "none", arg |-> <<>>, timeline |-> NoTimeline,
         active |-> NoTimeline, del |-> <<>>, backupID |-> NoBackupID,
         calls |-> <<>>]
NoCall == [op |-> "none", arg |-> <<>>, calls |-> <<>>, err |-> <<>>,
           timeline |-> NoTimeline, active |-> NoTimeline]

MutOutcomesNoContext(p) == IF repoInit THEN BOOLEAN ELSE {FALSE}

\* The outcomes of one restic command run for caller p: exec.CommandContext
\* kills the command of a cancelled context, and restic refuses to work on a
\* repository that was never initialised; otherwise it succeeds or fails.
Outcomes(p) == IF repoInit /\ ~ctxDone[p] THEN BOOLEAN ELSE {FALSE}

\* The restore handler as NewHandler(client) builds it, and as a literal
\* without a client and without a WAL manager.
HandlerBuilt == "NewHandler(client)"
HandlerNilClient == "handlerImpl{client: nil}"

\* The runtime panic of a method call through a nil pointer.
PanicNilDeref == "panic: invalid memory address or nil pointer dereference"

\* The plugin before any request.
NoRequest == [path |-> <<>>, method |-> <<>>, body |-> <<>>]
NoHttp == [phase |-> "idle", req |-> NoRequest, status |-> 0, invoked |-> <<>>]

(***************************************************************************)
(* The store behind restic.Client                                           *)
(***************************************************************************)
HasTags(snap, tags) == \A i \in 1..Len(tags) : tags[i] \in Range(snap.tags)

RECURSIVE SelectSnapshots(_, _)
SelectSnapshots(snaps, tags) ==
    IF snaps = <<>> THEN <<>>
    ELSE (IF HasTags(Head(snaps), tags) THEN <<Head(snaps)>> ELSE <<>>)
         \o SelectSnapshots(Tail(snaps), tags)

\* Client.FindSnapshots(ctx, tags): the listing, or the store's failure.
FindSnapshots(tags, ok) ==
    [fn |-> "FindSnapshots", tags |-> tags, ok |-> ok,
     snaps |-> IF ok THEN SelectSnapshots(store, tags) ELSE <<>>]

\* Client.Backup(ctx, path, tags): the call as issued.
Backup(path, tags, ok) == [fn |-> "Backup", path |-> path, tags |-> tags, ok |-> ok]

\* Client.DeleteSnapshots(ctx, ids): the call as issued.
DeleteSnapshots(ids, ok) == [fn |-> "DeleteSnapshots", ids |-> ids, ok |-> ok]

\* Client.Restore(ctx, snapshotID, targetPath): the call as issued.
Restore(snapshotID, targetPath, ok) ==
    [fn |-> "Restore", snapshotID |-> snapshotID, targetPath |-> targetPath, ok |-> ok]

\* Client.EnsureDirectory(ctx, path): the call as issued.
EnsureDirectory(path, ok) == [fn |-> "EnsureDirectory", path |-> path, ok |-> ok]

\* Client.RestoreFile(ctx, snapshotID, file, targetPath): the call as issued.
RestoreFile(snapshotID, file, targetPath, ok) ==
    [fn |-> "RestoreFile", snapshotID |-> snapshotID, file |-> file,
     targetPath |-> targetPath, ok |-> ok]

\* The repository after a Backup call: when the call succeeds, a new snapshot
\* listed first (pos = 0) or last (pos = Len(store)), the listing order being
\* the store's own; the same repository when the call fails.
StoreAfterBackup(tags, ok, pos) ==
    IF ok
    THEN SubSeq(store, 1, pos)
         \o <<[id |-> nextId, time |-> clock, tags |-> tags]>>
         \o SubSeq(store, pos + 1, Len(store))
    ELSE store

RECURSIVE RemoveIds(_, _)
RemoveIds(snaps, ids) ==
    IF snaps = <<>> THEN <<>>
    ELSE (IF Head(snaps).id \in Range(ids) THEN <<>> ELSE <<Head(snaps)>>)
         \o RemoveIds(Tail(snaps), ids)

(***************************************************************************)
(* Manager.GetWALTimeline                                                   *)
(***************************************************************************)
One32 == <<1, 0>>

ErrGetTimeline == "failed to get WAL timeline"
ErrParseName == "failed to parse WAL file name"
ErrNoValidWAL == "no valid WAL file found in latest snapshot"

\* The loop over snapshots[0].Tags: the first tag the pattern matches decides.
RECURSIVE ScanTags(_)
ScanTags(tags) ==
    IF tags = <<>> THEN [err |-> <<ErrNoValidWAL>>, timeline |-> NoTimeline]
    ELSE LET walFile == FindString(Head(tags)) IN
         IF walFile # <<>>
         THEN LET parsed == ParseWALFileName(walFile) IN
              IF parsed.err # ""
              THEN [err |-> <<ErrParseName, parsed.err>>, timeline |-> NoTimeline]
              ELSE [err |-> <<>>, timeline |-> parsed.seg.Timeline]
         ELSE ScanTags(Tail(tags))

MutGetWALTimelineZero(found) ==
    IF ~found.ok THEN [err |-> <<ErrGetTimeline>>, timeline |-> NoTimeline]
    ELSE IF found.snaps = <<>> THEN [err |-> <<>>, timeline |-> Zero(Limbs32)]
    ELSE ScanTags(found.snaps[1].tags)

MutGetWALTimelineDefault(found) ==
    IF ~found.ok THEN [err |-> <<ErrGetTimeline>>, timeline |-> NoTimeline]
    ELSE IF found.snaps = <<>> THEN [err |-> <<>>, timeline |-> One32]
    ELSE LET r == ScanTags(found.snaps[1].tags) IN
         IF r.err # <<>> THEN [err |-> <<>>, timeline |-> One32] ELSE r

\* found is the outcome of FindSnapshots(ctx, {"type:wal"}).
GetWALTimeline(found) ==
    IF ~found.ok THEN [err |-> <<ErrGetTimeline>>, timeline |-> NoTimeline]
    ELSE IF found.snaps = <<>> THEN [err |-> <<>>, timeline |-> One32]
    ELSE ScanTags(found.snaps[1].tags)

(***************************************************************************)
(* Returning from a handler                                                 *)
(***************************************************************************)
Return(p, op, arg, calls, err, timeline, active) ==
    /\ last' = [op |-> op, arg |-> arg, calls |-> calls, err |-> err,
                timeline |-> timeline, active |-> active]
    /\ inflight' = [inflight EXCEPT ![p] = Idle]

\* An invocation that ends in a panic before any store call: nothing is
\* returned to the caller; the log keeps the panic in the place of the error.
Panic(p, op, arg) ==
    Return(p, op, arg, <<>>, <<PanicNilDeref>>, NoTimeline, NoTimeline)

(***************************************************************************)
(* handlerImpl.ArchiveWAL and Manager.ArchiveWAL                            *)
(***************************************************************************)
ErrNoWalPath == "WAL path not specified"
ErrArchiveWAL == "failed to archive WAL"
ErrArchiveSegment == "failed to archive WAL segment"

MutArchiveTagsPath(walPath, walFileName, segment) ==
    << TagTypeWal,
       PrefixTimeline \o SprintfD(segment.Timeline),
       PrefixLogicalID \o SprintfD(segment.LogicalID),
       PrefixSegmentID \o SprintfD(segment.SegmentID),
       PrefixWalFile \o walPath >>

MutArchiveTagsNoSegment(walPath, walFileName, segment) ==
    << TagTypeWal,
       PrefixTimeline \o SprintfD(segment.Timeline),
       PrefixLogicalID \o SprintfD(segment.LogicalID),
       PrefixWalFile \o walFileName >>

\* The tags of a WAL segment snapshot.
ArchiveTags(walPath, walFileName, segment) ==
    << TagTypeWal,
       PrefixTimeline \o SprintfD(segment.Timeline),
       PrefixLogicalID \o SprintfD(segment.LogicalID),
       PrefixSegmentID \o SprintfD(segment.SegmentID),
       PrefixWalFile \o walFileName >>

MutParseForArchiveLenient(walFileName) ==
    LET r == ParseWALFileName(walFileName) IN
    IF r.err # "" THEN [err |-> "", seg |-> NoSegment] ELSE r

\* The parse of the base name that gates the archival.
ParseForArchive(walFileName) == ParseWALFileName(walFileName)

\* What Manager.ArchiveWAL computes from walPath before it calls the store:
\* the base name, its parse and, when that succeeds, the tags.
ArchivePlan ==
    [walPath \in WalPaths |->
        LET walFileName == Base(walPath)
            parsed == ParseForArchive(walFileName)
        IN  [parsed |-> parsed,
             tags |-> IF parsed.err = ""
                      THEN ArchiveTags(walPath, walFileName, parsed.seg) ELSE <<>>]]

MutArchiveWALEmptyNoop(p, walPath) ==
    /\ inflight[p].pc = "idle"
    /\ UNCHANGED <<clock, otherVars>>
    /\ IF walPath = <<>>
       THEN /\ Return(p, "archive", walPath, <<>>, <<>>, NoTimeline, NoTimeline)
            /\ UNCHANGED <<store, nextId, archived>>
       ELSE LET parsed == ArchivePlan[walPath].parsed
                tags   == ArchivePlan[walPath].tags
            IN  IF parsed.err # ""
                THEN /\ Return(p, "archive", walPath, <<>>,
                               <<ErrArchiveWAL, ErrParseName, parsed.err>>,
                               NoTimeline, NoTimeline)
                     /\ UNCHANGED <<store, nextId, archived>>
                ELSE \E ok \in Outcomes(p), pos \in {0, Len(store)} :
                        /\ ok => nextId <= MaxSnapshots
                        /\ ~ok => pos = 0
                        /\ store' = StoreAfterBackup(tags, ok, pos)
                        /\ nextId' = IF ok THEN nextId + 1 ELSE nextId
                        /\ archived' = IF ok THEN parsed.seg.Timeline ELSE archived
                        /\ Return(p, "archive", walPath, <<Backup(walPath, tags, ok)>>,
                                  IF ok THEN <<>> ELSE <<ErrArchiveWAL, ErrArchiveSegment>>,
                                  NoTimeline, NoTimeline)

ArchiveWAL(p, walPath) ==
    /\ inflight[p].pc = "idle"
    /\ UNCHANGED <<clock, otherVars>>
    /\ IF walPath = <<>>
       THEN /\ Return(p, "archive", walPath, <<>>, <<ErrNoWalPath>>, NoTimeline, NoTimeline)
            /\ UNCHANGED <<store, nextId, archived>>
       ELSE LET parsed == ArchivePlan[walPath].parsed
                tags   == ArchivePlan[walPath].tags
            IN  IF parsed.err # ""
                THEN /\ Return(p, "archive", walPath, <<>>,
                               <<ErrArchiveWAL, ErrParseName, parsed.err>>,
                               NoTimeline, NoTimeline)
                     /\ UNCHANGED <<store, nextId, archived>>
                ELSE \E ok \in Outcomes(p), pos \in {0, Len(store)} :
                        /\ ok => nextId <= MaxSnapshots
                        /\ ~ok => pos = 0
                        /\ store' = StoreAfterBackup(tags, ok, pos)
                        /\ nextId' = IF ok THEN nextId + 1 ELSE nextId
                        /\ archived' = IF ok THEN parsed.seg.Timeline ELSE archived
                        /\ Return(p, "archive", walPath, <<Backup(walPath, tags, ok)>>,
                                  IF ok THEN <<>> ELSE <<ErrArchiveWAL, ErrArchiveSegment>>,
                                  NoTimeline, NoTimeline)

(***************************************************************************)
(* handlerImpl.CreateBackup                                                 *)
(***************************************************************************)
ErrNoDataDir == "data directory not specified"
ErrCreateBackup == "failed to create backup"

\* The tags of a full backup snapshot.
BackupTags(timeline) == <<TagTypeFull, PrefixTimeline \o SprintfD(timeline)>>

MutResolveForBackupIgnoreError(found) ==
    LET r == GetWALTimeline(found) IN
    IF r.err # <<>> THEN [err |-> <<>>, timeline |-> Zero(Limbs32)] ELSE r

\* The timeline resolution that gates the backup.
ResolveForBackup(found) == GetWALTimeline(found)

MutCreateBackupResolveNoCheck(p, dataDir) ==
    /\ inflight[p].pc = "idle"
    /\ UNCHANGED <<store, nextId, clock, archived, otherVars>>
    /\ \E ok \in Outcomes(p) :
          LET found == FindSnapshots(<<TagTypeWal>>, ok)
              res   == ResolveForBackup(found)
          IN  IF res.err # <<>>
              THEN Return(p, "createBackup", dataDir, <<found>>,
                          <<ErrGetTimeline>> \o res.err, NoTimeline, archived)
              ELSE /\ inflight' = [inflight EXCEPT ![p] =
                            [pc |-> "backup", op |-> "createBackup", arg |-> dataDir,
                             timeline |-> res.timeline, active |-> archived,
                             del |-> <<>>, backupID |-> NoBackupID,
                             calls |-> <<found>>]]
                   /\ UNCHANGED last

\* Up to the return of GetWALTimeline: the validation and the listing.
CreateBackupResolve(p, dataDir) ==
    /\ inflight[p].pc = "idle"
    /\ UNCHANGED <<store, nextId, clock, archived, otherVars>>
    /\ IF dataDir = <<>>
       THEN Return(p, "createBackup", dataDir, <<>>, <<ErrNoDataDir>>, NoTimeline, NoTimeline)
       ELSE \E ok \in Outcomes(p) :
              LET found == FindSnapshots(<<TagTypeWal>>, ok)
                  res   == ResolveForBackup(found)
              IN  IF res.err # <<>>
                  THEN Return(p, "createBackup", dataDir, <<found>>,
                              <<ErrGetTimeline>> \o res.err, NoTimeline, archived)
                  ELSE /\ inflight' = [inflight EXCEPT ![p] =
                                [pc |-> "backup", op |-> "createBackup", arg |-> dataDir,
                                 timeline |-> res.timeline, active |-> archived,
                                 del |-> <<>>, backupID |-> NoBackupID,
                                 calls |-> <<found>>]]
                       /\ UNCHANGED last

MutCreateBackupStoreSwallow(p) ==
    /\ inflight[p].pc = "backup"
    /\ UNCHANGED <<clock, archived, otherVars>>
    /\ \E ok \in Outcomes(p), pos \in {0, Len(store)} :
          LET c    == inflight[p]
              tags == BackupTags(c.timeline)
          IN  /\ ok => nextId <= MaxSnapshots
              /\ ~ok => pos = 0
              /\ store' = StoreAfterBackup(tags, ok, pos)
              /\ nextId' = IF ok THEN nextId + 1 ELSE nextId
              /\ Return(p, "createBackup", c.arg, c.calls \o <<Backup(c.arg, tags, ok)>>,
                        <<>>, c.timeline, c.active)

\* The Backup call and the return.
CreateBackupStore(p) ==
    /\ inflight[p].pc = "backup"
    /\ UNCHANGED <<clock, archived, otherVars>>
    /\ \E ok \in Outcomes(p), pos \in {0, Len(store)} :
          LET c    == inflight[p]
              tags == BackupTags(c.timeline)
          IN  /\ ok => nextId <= MaxSnapshots
              /\ ~ok => pos = 0
              /\ store' = StoreAfterBackup(tags, ok, pos)
              /\ nextId' = IF ok THEN nextId + 1 ELSE nextId
              /\ Return(p, "createBackup", c.arg, c.calls \o <<Backup(c.arg, tags, ok)>>,
                        IF ok THEN <<>> ELSE <<ErrCreateBackup>>, c.timeline, c.active)

(***************************************************************************)
(* Manager.GetWALTimeline called on its own                                 *)
(***************************************************************************)
CurrentTimeline(p) ==
    /\ inflight[p].pc = "idle"
    /\ UNCHANGED <<store, nextId, clock, archived, otherVars>>
    /\ \E ok \in Outcomes(p) :
          LET found == FindSnapshots(<<TagTypeWal>>, ok)
              res   == GetWALTimeline(found)
          IN  Return(p, "currentTimeline", <<>>, <<found>>, res.err, res.timeline, archived)

(***************************************************************************)
(* Manager.CleanupWALSegments                                               *)
(***************************************************************************)
ErrListSegments == "failed to list WAL segments"
ErrDeleteSegments == "failed to delete old WAL segments"

MutBeforeInclusive(t, before) == t <= before

\* snapshot.Time.Before(before)
Before(t, before) == t < before

RECURSIVE SnapshotsToDelete(_, _)
SnapshotsToDelete(snaps, before) ==
    IF snaps = <<>> THEN <<>>
    ELSE (IF Before(Head(snaps).time, before) THEN <<Head(snaps).id>> ELSE <<>>)
         \o SnapshotsToDelete(Tail(snaps), before)

MutCleanupListAnyType(p, before) ==
    /\ inflight[p].pc = "idle"
    /\ UNCHANGED <<store, nextId, clock, archived, otherVars>>
    /\ \E ok \in Outcomes(p) :
          LET found == FindSnapshots(<<>>, ok) IN
          IF ~ok
          THEN Return(p, "cleanupBefore", before, <<found>>, <<ErrListSegments>>,
                      NoTimeline, NoTimeline)
          ELSE LET del == SnapshotsToDelete(found.snaps, before) IN
               IF Len(del) > 0
               THEN /\ inflight' = [inflight EXCEPT ![p] =
                             [pc |-> "delete", op |-> "cleanupBefore", arg |-> before,
                              timeline |-> NoTimeline, active |-> NoTimeline,
                              del |-> del, backupID |-> NoBackupID,
                              calls |-> <<found>>]]
                    /\ UNCHANGED last
               ELSE Return(p, "cleanupBefore", before, <<found>>, <<>>,
                           NoTimeline, NoTimeline)

MutCleanupListAlwaysDelete(p, before) ==
    /\ inflight[p].pc = "idle"
    /\ UNCHANGED <<store, nextId, clock, archived, otherVars>>
    /\ \E ok \in Outcomes(p) :
          LET found == FindSnapshots(<<TagTypeWal>>, ok) IN
          IF ~ok
          THEN Return(p, "cleanupBefore", before, <<found>>, <<ErrListSegments>>,
                      NoTimeline, NoTimeline)
          ELSE /\ inflight' = [inflight EXCEPT ![p] =
                        [pc |-> "delete", op |-> "cleanupBefore", arg |-> before,
                         timeline |-> NoTimeline, active |-> NoTimeline,
                         del |-> SnapshotsToDelete(found.snaps, before),
                         backupID |-> NoBackupID, calls |-> <<found>>]]
               /\ UNCHANGED last

\* What CleanupWALSegments hands back to its caller for an invocation: its
\* one result, the error.
CleanupResults(inv) == <<inv.err>>

\* Up to the decision what to delete.
CleanupList(p, before) ==
    /\ inflight[p].pc = "idle"
    /\ UNCHANGED <<store, nextId, clock, archived, otherVars>>
    /\ \E ok \in Outcomes(p) :
          LET found == FindSnapshots(<<TagTypeWal>>, ok) IN
          IF ~ok
          THEN Return(p, "cleanupBefore", before, <<found>>, <<ErrListSegments>>,
                      NoTimeline, NoTimeline)
          ELSE LET del == SnapshotsToDelete(found.snaps, before) IN
               IF Len(del) > 0
               THEN /\ inflight' = [inflight EXCEPT ![p] =
                             [pc |-> "delete", op |-> "cleanupBefore", arg |-> before,
                              timeline |-> NoTimeline, active |-> NoTimeline,
                              del |-> del, backupID |-> NoBackupID,
                              calls |-> <<found>>]]
                    /\ UNCHANGED last
               ELSE Return(p, "cleanupBefore", before, <<found>>, <<>>,
                           NoTimeline, NoTimeline)

MutCleanupDeleteRetry(p) ==
    /\ inflight[p].pc = "delete"
    /\ UNCHANGED <<nextId, clock, archived, otherVars>>
    /\ \E ok \in Outcomes(p), again \in Outcomes(p) :
          LET c == inflight[p]
              first == DeleteSnapshots(c.del, ok)
              calls == IF ok THEN c.calls \o <<first>>
                       ELSE c.calls \o <<first, DeleteSnapshots(c.del, again)>>
              done  == ok \/ again
          IN  /\ store' = IF done THEN RemoveIds(store, c.del) ELSE store
              /\ Return(p, "cleanupBefore", c.arg, calls,
                        IF done THEN <<>> ELSE <<ErrDeleteSegments>>,
                        NoTimeline, NoTimeline)

MutCleanupDeleteSwallow(p) ==
    /\ inflight[p].pc = "delete"
    /\ UNCHANGED <<nextId, clock, archived, otherVars>>
    /\ \E ok \in Outcomes(p) :
          LET c == inflight[p] IN
          /\ store' = IF ok THEN RemoveIds(store, c.del) ELSE store
          /\ Return(p, "cleanupBefore", c.arg, c.calls \o <<DeleteSnapshots(c.del, ok)>>,
                    <<>>, NoTimeline, NoTimeline)

\* A cleanup that lists the repository again when it deletes.
MutCleanupDeleteRelist(p) ==
    /\ inflight[p].pc = "delete"
    /\ UNCHANGED <<nextId, clock, archived, otherVars>>
    /\ \E ok \in Outcomes(p) :
          LET c   == inflight[p]
              del == SnapshotsToDelete(FindSnapshots(<<TagTypeWal>>, TRUE).snaps, c.arg)
          IN  /\ store' = IF ok THEN RemoveIds(store, del) ELSE store
              /\ Return(p, "cleanupBefore", c.arg, c.calls \o <<DeleteSnapshots(del, ok)>>,
                        IF ok THEN <<>> ELSE <<ErrDeleteSegments>>, NoTimeline, NoTimeline)

\* The DeleteSnapshots call and the return.
CleanupDelete(p) ==
    /\ inflight[p].pc = "delete"
    /\ UNCHANGED <<nextId, clock, archived, otherVars>>
    /\ \E ok \in Outcomes(p) :
          LET c == inflight[p] IN
          /\ store' = IF ok THEN RemoveIds(store, c.del) ELSE store
          /\ Return(p, "cleanupBefore", c.arg, c.calls \o <<DeleteSnapshots(c.del, ok)>>,
                    IF ok THEN <<>> ELSE <<ErrDeleteSegments>>, NoTimeline, NoTimeline)

(***************************************************************************)
(* handlerImpl.RestoreBackup                                                *)
(***************************************************************************)
ErrRestoreBackup == "failed to restore backup"

MutRestoreBackupSwapped(p, snapshotID, targetDir) ==
    /\ inflight[p].pc = "idle"
    /\ UNCHANGED <<store, nextId, clock, archived, otherVars>>
    /\ \E ok \in Outcomes(p) :
          Return(p, "restoreBackup",
                 [snapshotID |-> snapshotID, targetDir |-> targetDir],
                 <<Restore(targetDir, snapshotID, ok)>>,
                 IF ok THEN <<>> ELSE <<ErrRestoreBackup>>, NoTimeline, NoTimeline)

\* The Restore call and the return: the arguments reach the store as given.
RestoreBackup(p, snapshotID, targetDir) ==
    /\ inflight[p].pc = "idle"
    /\ UNCHANGED <<store, nextId, clock, archived, otherVars>>
    /\ IF restoreHandler = HandlerNilClient
       THEN Panic(p, "restoreBackup",
                  [snapshotID |-> snapshotID, targetDir |-> targetDir])
       ELSE \E ok \in Outcomes(p) :
              Return(p, "restoreBackup",
                     [snapshotID |-> snapshotID, targetDir |-> targetDir],
                     <<Restore(snapshotID, targetDir, ok)>>,
                     IF ok THEN <<>> ELSE <<ErrRestoreBackup>>,
                     NoTimeline, NoTimeline)

(***************************************************************************)
(* handlerImpl.RestoreWAL, Manager.RestoreWALSegment, Manager.FindWALSegment*)
(***************************************************************************)
ErrRestoreSegment == "failed to restore WAL segment"
ErrFindSegment == "failed to find WAL segment"
ErrSegmentNotFound == "WAL segment not found"
ErrCreateTargetDir == "failed to create target directory"

MutParseForFindLenient(walFileName) ==
    LET r == ParseWALFileName(walFileName) IN
    IF r.err # "" THEN [err |-> "", seg |-> NoSegment] ELSE r

\* The parse of the name that gates the search.
ParseForFind(walFileName) == ParseWALFileName(walFileName)

MutWalSegmentQueryTypeOnly(walFileName) == <<TagTypeWal>>

\* The tags FindWALSegment asks the store for.
WalSegmentQuery(walFileName) == <<TagTypeWal, PrefixWalFile \o walFileName>>

MutLatestSnapshotLast(snapshots) == snapshots[Len(snapshots)]

\* latestSnapshot := snapshots[0]
LatestSnapshot(snapshots) == snapshots[1]

\* What the restore computes from its arguments before it calls the store:
\* the parse of the name, the tags to search for and the directory to ensure.
RestorePlan ==
    [in \in RestoreWALInputs |->
        [parsed |-> ParseForFind(in.walFile),
         query |-> WalSegmentQuery(in.walFile),
         targetDir |-> Dir(in.targetPath)]]

\* FindWALSegment: the parse, the listing and the choice of the snapshot.
RestoreWALFind(p, in) ==
    /\ inflight[p].pc = "idle"
    /\ UNCHANGED <<store, nextId, clock, archived, otherVars>>
    /\ LET parsed == RestorePlan[in].parsed IN
       IF restoreHandler = HandlerNilClient
       THEN Panic(p, "restoreSegment", in)
       ELSE IF parsed.err # ""
       THEN Return(p, "restoreSegment", in, <<>>,
                   <<ErrRestoreSegment, ErrParseName, parsed.err>>,
                   NoTimeline, NoTimeline)
       ELSE \E ok \in Outcomes(p) :
              LET found == FindSnapshots(RestorePlan[in].query, ok) IN
              IF ~ok
              THEN Return(p, "restoreSegment", in, <<found>>,
                          <<ErrRestoreSegment, ErrFindSegment>>, NoTimeline, NoTimeline)
              ELSE IF Len(found.snaps) = 0
              THEN Return(p, "restoreSegment", in, <<found>>,
                          <<ErrRestoreSegment, ErrSegmentNotFound>>,
                          NoTimeline, NoTimeline)
              ELSE /\ inflight' = [inflight EXCEPT ![p] =
                            [pc |-> "ensure", op |-> "restoreSegment", arg |-> in,
                             timeline |-> NoTimeline, active |-> NoTimeline,
                             del |-> <<>>,
                             backupID |-> LatestSnapshot(found.snaps).id,
                             calls |-> <<found>>]]
                   /\ UNCHANGED last

\* The EnsureDirectory call on the directory of the target path.
RestoreWALEnsure(p) ==
    /\ inflight[p].pc = "ensure"
    /\ UNCHANGED <<store, nextId, clock, archived, otherVars>>
    /\ \E ok \in BOOLEAN :
          LET c    == inflight[p]
              call == EnsureDirectory(RestorePlan[c.arg].targetDir, ok)
          IN  IF ~ok
              THEN Return(p, "restoreSegment", c.arg, c.calls \o <<call>>,
                          <<ErrRestoreSegment, ErrCreateTargetDir>>,
                          NoTimeline, NoTimeline)
              ELSE /\ inflight' = [inflight EXCEPT ![p] =
                            [c EXCEPT !.pc = "restoreFile",
                                      !.calls = c.calls \o <<call>>]]
                   /\ UNCHANGED last

\* A restore that drops the snapshot it restored from.
MutRestoreWALFileConsumes(p) ==
    /\ inflight[p].pc = "restoreFile"
    /\ UNCHANGED <<nextId, clock, archived, otherVars>>
    /\ \E ok \in Outcomes(p) :
          LET c == inflight[p] IN
          /\ store' = IF ok THEN RemoveIds(store, <<c.backupID>>) ELSE store
          /\ Return(p, "restoreSegment", c.arg,
                    c.calls \o <<RestoreFile(c.backupID, c.arg.walFile,
                                             c.arg.targetPath, ok)>>,
                    IF ok THEN <<>> ELSE <<ErrRestoreSegment, ErrRestoreSegment>>,
                    NoTimeline, NoTimeline)

\* The RestoreFile call and the return.
RestoreWALFile(p) ==
    /\ inflight[p].pc = "restoreFile"
    /\ UNCHANGED <<store, nextId, clock, archived, otherVars>>
    /\ \E ok \in Outcomes(p) :
          LET c == inflight[p] IN
          Return(p, "restoreSegment", c.arg,
                 c.calls \o <<RestoreFile(c.backupID, c.arg.walFile,
                                          c.arg.targetPath, ok)>>,
                 IF ok THEN <<>> ELSE <<ErrRestoreSegment, ErrRestoreSegment>>,
                 NoTimeline, NoTimeline)

(***************************************************************************)
(* Time                                                                     *)
(***************************************************************************)
Tick ==
    /\ clock < MaxTime
    /\ clock' = clock + 1
    /\ UNCHANGED <<store, nextId, inflight, last, archived, otherVars>>

(***************************************************************************)
(* The program, from an empty repository                                    *)
(***************************************************************************)
InitOrderIdle == oNames = <<>> /\ oSegs = <<>>

InitCodecIdle == cName = <<>> /\ cTriple = <<>> /\ cResult = <<>> /\ InitOrderIdle

\* main() initialises the repository before it serves; no context is
\* cancelled and no request has arrived.
InitServing(callers) ==
    /\ repoInit = TRUE
    /\ restoreHandler = HandlerBuilt
    /\ ctxDone = [p \in callers |-> FALSE]
    /\ http = NoHttp

Init ==
    /\ store = <<>>
    /\ nextId = 1
    /\ clock = 0
    /\ inflight = [p \in Callers |-> Idle]
    /\ last = NoCall
    /\ archived = NoTimeline
    /\ InitCodecIdle
    /\ InitServing(Callers)

Next ==
    \/ \E p \in Callers, walPath \in WalPaths : ArchiveWAL(p, walPath)
    \/ \E p \in Callers, dataDir \in DataDirs : CreateBackupResolve(p, dataDir)
    \/ \E p \in Callers : CreateBackupStore(p)
    \/ \E p \in Callers : CurrentTimeline(p)
    \/ \E p \in Callers, before \in 0..(MaxTime + 1) : CleanupList(p, before)
    \/ \E p \in Callers : CleanupDelete(p)
    \/ \E p \in Callers, in \in RestoreBackupInputs :
          RestoreBackup(p, in.snapshotID, in.targetDir)
    \/ \E p \in Callers, in \in RestoreWALInputs : RestoreWALFind(p, in)
    \/ \E p \in Callers : RestoreWALEnsure(p)
    \/ \E p \in Callers : RestoreWALFile(p)
    \/ Tick

Spec == Init /\ [][Next]_vars

(***************************************************************************)
(* The program, on a repository that already holds WAL snapshots tagged the *)
(* way the backup handler's test fixture tags them: "type:wal" and the bare *)
(* segment name                                                             *)
(***************************************************************************)
Fixture(id, name) == [id |-> id, time |-> 0, tags |-> <<TagTypeWal, name>>]

SeedStores ==
    { <<Fixture(1, NameT1)>>, <<Fixture(1, NameT3)>>,
      <<Fixture(1, NameT3), Fixture(2, NameT1)>> }

InitSeeded ==
    /\ store \in SeedStores
    /\ nextId = Len(store) + 1
    /\ clock = 0
    /\ inflight = [p \in Callers |-> Idle]
    /\ last = NoCall
    /\ archived = NoTimeline
    /\ InitCodecIdle
    /\ InitServing(Callers)

SpecSeeded == InitSeeded /\ [][Next]_vars

(***************************************************************************)
(* Two callers archiving at the same time. Here the archive is split at its *)
(* one store call, so that both callers can be between the parse and the    *)
(* Backup call at once.                                                     *)
(***************************************************************************)
RaceCallers == {1, 2}
\* Inputs of archive() for the two callers: the same two segments.
RaceWalPaths == {DirWal \o NameT1, DirWal \o NameT2}

\* Up to the Backup call: the validation, the base name, the parse, the tags.
ArchiveWALBegin(p, walPath) ==
    /\ inflight[p].pc = "idle"
    /\ UNCHANGED <<store, nextId, clock, archived, otherVars>>
    /\ IF walPath = <<>>
       THEN Return(p, "archive", walPath, <<>>, <<ErrNoWalPath>>, NoTimeline, NoTimeline)
       ELSE LET parsed == ArchivePlan[walPath].parsed IN
            IF parsed.err # ""
            THEN Return(p, "archive", walPath, <<>>,
                        <<ErrArchiveWAL, ErrParseName, parsed.err>>,
                        NoTimeline, NoTimeline)
            ELSE /\ inflight' = [inflight EXCEPT ![p] =
                          [Idle EXCEPT !.pc = "archive", !.op = "archive",
                                       !.arg = walPath]]
                 /\ UNCHANGED last

MutArchiveWALStoreDedup(p) ==
    /\ inflight[p].pc = "archive"
    /\ UNCHANGED <<clock, otherVars>>
    /\ LET walPath == inflight[p].arg
           parsed  == ArchivePlan[walPath].parsed
           tags    == ArchivePlan[walPath].tags
       IN  IF \E i \in 1..Len(store) : store[i].tags = tags
           THEN /\ Return(p, "archive", walPath, <<>>, <<>>, NoTimeline, NoTimeline)
                /\ UNCHANGED <<store, nextId, archived>>
           ELSE \E ok \in Outcomes(p), pos \in {0, Len(store)} :
                   /\ ok => nextId <= MaxSnapshots
                   /\ ~ok => pos = 0
                   /\ store' = StoreAfterBackup(tags, ok, pos)
                   /\ nextId' = IF ok THEN nextId + 1 ELSE nextId
                   /\ archived' = IF ok THEN parsed.seg.Timeline ELSE archived
                   /\ Return(p, "archive", walPath, <<Backup(walPath, tags, ok)>>,
                             IF ok THEN <<>> ELSE <<ErrArchiveWAL, ErrArchiveSegment>>,
                             NoTimeline, NoTimeline)

\* The Backup call and the return.
ArchiveWALStore(p) ==
    /\ inflight[p].pc = "archive"
    /\ UNCHANGED <<clock, otherVars>>
    /\ LET walPath == inflight[p].arg
           parsed  == ArchivePlan[walPath].parsed
           tags    == ArchivePlan[walPath].tags
       IN  \E ok \in Outcomes(p), pos \in {0, Len(store)} :
              /\ ok => nextId <= MaxSnapshots
              /\ ~ok => pos = 0
              /\ store' = StoreAfterBackup(tags, ok, pos)
              /\ nextId' = IF ok THEN nextId + 1 ELSE nextId
              /\ archived' = IF ok THEN parsed.seg.Timeline ELSE archived
              /\ Return(p, "archive", walPath, <<Backup(walPath, tags, ok)>>,
                        IF ok THEN <<>> ELSE <<ErrArchiveWAL, ErrArchiveSegment>>,
                        NoTimeline, NoTimeline)

InitRace ==
    /\ store = <<>>
    /\ nextId = 1
    /\ clock = 0
    /\ inflight = [p \in RaceCallers |-> Idle]
    /\ last = NoCall
    /\ archived = NoTimeline
    /\ InitCodecIdle
    /\ InitServing(RaceCallers)

NextRace ==
    \/ \E p \in RaceCallers, walPath \in RaceWalPaths : ArchiveWALBegin(p, walPath)
    \/ \E p \in RaceCallers : ArchiveWALStore(p)
    \/ Tick

SpecRace == InitRace /\ [][NextRace]_vars

(***************************************************************************)
(* ParseWALFileName applied to bounded inputs                               *)
(***************************************************************************)
\* Pieces names are assembled from: well-formed groups, and groups that are
\* lowercase, not hexadecimal, too short, too long, separated, or empty.
GroupPieces ==
    { <<"0","0","0","0","0","0","0","1">>,
      <<"0","0","0","0","0","0","0","A">>,
      <<"F","F","F","F","F","F","F","F">>,
      <<"0","0","0","0","0","0","0","a">>,
      <<"0","0","0","0","0","0","0","G">>,
      <<"0","0","0","0","0","0","1">>,
      <<"0","0","0","0","0","0","0","0","1">>,
      <<"0","0","0","0","_","0","0","1">>,
      <<>> }

RawNames ==
    { a \o b \o c : a \in GroupPieces, b \in GroupPieces, c \in GroupPieces }
    \cup { PrefixWalFile \o NameT1, NameT1 \o <<" ">>, <<" ">> \o NameT1, NameInvalid }

\* Components below 2^32, as two limbs: 0, 1, 255, 2^16, 2^31, 0xABCDEF12, 2^32 - 1.
ComponentValues ==
    { <<0, 0>>, <<1, 0>>, <<255, 0>>, <<0, 1>>, <<0, 32768>>, <<61202, 43981>>,
      <<65535, 65535>> }

Triples == ComponentValues \X ComponentValues \X ComponentValues

\* A 16-bit limb as four uppercase hexadecimal digits.
Hex4(x) ==
    << UpperHexDigits[(x \div 4096) + 1], UpperHexDigits[((x \div 256) % 16) + 1],
       UpperHexDigits[((x \div 16) % 16) + 1], UpperHexDigits[(x % 16) + 1] >>

\* A component as eight uppercase hexadecimal digits.
Hex8(v) == Hex4(v[2]) \o Hex4(v[1])

\* The segment name of a triple.
FormatName(t) == Hex8(t[1]) \o Hex8(t[2]) \o Hex8(t[3])

InitCodec ==
    /\ store = <<>>
    /\ nextId = 1
    /\ clock = 0
    /\ inflight = [p \in Callers |-> Idle]
    /\ last = NoCall
    /\ archived = NoTimeline
    /\ cTriple \in Triples \cup {<<>>}
    /\ cName \in (IF cTriple = <<>> THEN RawNames ELSE {FormatName(cTriple)})
    /\ cResult = <<>>
    /\ InitOrderIdle
    /\ InitServing(Callers)

CodecParse ==
    /\ cResult = <<>>
    /\ cResult' = ParseWALFileName(cName)
    /\ UNCHANGED <<cName, cTriple, oNames, oSegs, progVars, envVars, http>>

NextCodec == CodecParse

SpecCodec == InitCodec /\ [][NextCodec]_vars

(***************************************************************************)
(* Three names parsed side by side, so that the segments they name can be   *)
(* compared.                                                                *)
(***************************************************************************)
\* Groups that differ in their low half, in their high half, and in both.
OrderPieces ==
    { <<"0","0","0","0","0","0","0","1">>,
      <<"0","0","0","1","0","0","0","1">>,
      <<"F","F","F","F","F","F","F","F">> }

\* The smallest and the largest group.
OrderEnds == { <<"0","0","0","0","0","0","0","1">>, <<"F","F","F","F","F","F","F","F">> }

OrderNames ==
    { a \o b \o c : a \in OrderPieces, b \in OrderEnds, c \in OrderEnds }
    \cup {NameInvalid}

InitOrder ==
    /\ store = <<>>
    /\ nextId = 1
    /\ clock = 0
    /\ inflight = [p \in Callers |-> Idle]
    /\ last = NoCall
    /\ archived = NoTimeline
    /\ cName = <<>> /\ cTriple = <<>> /\ cResult = <<>>
    /\ oNames \in OrderNames \X OrderNames \X OrderNames
    /\ oSegs = <<>>
    /\ InitServing(Callers)

OrderParse ==
    /\ oSegs = <<>>
    /\ oSegs' = [i \in 1..3 |-> ParseWALFileName(oNames[i])]
    /\ UNCHANGED <<cName, cTriple, cResult, oNames, progVars, envVars, http>>

NextOrder == OrderParse

SpecOrder == InitOrder /\ [][NextOrder]_vars

(***************************************************************************)
(* Cancellation: the caller's context may be cancelled before or during an  *)
(* invocation, and the caller takes a fresh context between invocations.    *)
(***************************************************************************)
Cancel(p) ==
    /\ ~ctxDone[p]
    /\ ctxDone' = [ctxDone EXCEPT ![p] = TRUE]
    /\ UNCHANGED <<progVars, codecVars, repoInit, restoreHandler, http>>

FreshContext(p) ==
    /\ ctxDone[p]
    /\ inflight[p].pc = "idle"
    /\ ctxDone' = [ctxDone EXCEPT ![p] = FALSE]
    /\ UNCHANGED <<progVars, codecVars, repoInit, restoreHandler, http>>

NextCancel ==
    \/ Next
    \/ \E p \in Callers : Cancel(p)
    \/ \E p \in Callers : FreshContext(p)

SpecCancel == Init /\ [][NextCancel]_vars

(***************************************************************************)
(* clientImpl.InitRepository                                                *)
(***************************************************************************)
ErrInitRepository == "failed to initialize repository"

\* strings.Contains(s, substr)
Contains(s, substr) ==
    \E i \in 0..(Len(s) - Len(substr)) : SubSeq(s, i + 1, i + Len(substr)) = substr

\* The text InitRepository looks for in the output of a failed "restic init".
MsgAlreadyInitialized ==
    <<"r","e","p","o","s","i","t","o","r","y"," ","m","a","s","t","e","r"," ",
      "k","e","y"," ","a","n","d"," ","c","o","n","f","i","g"," ","a","l","r",
      "e","a","d","y"," ","i","n","i","t","i","a","l","i","z","e","d">>

\* What "restic init" prints: when the repository exists, when it created
\* it, and when it could not reach it.
OutAlreadyInitialized == <<"F","a","t","a","l",":"," ">> \o MsgAlreadyInitialized \o <<"!">>
OutCreated ==
    <<"c","r","e","a","t","e","d"," ","r","e","s","t","i","c"," ","r","e","p",
      "o","s","i","t","o","r","y">>
OutUnreachable ==
    <<"F","a","t","a","l",":"," ","u","n","a","b","l","e"," ","t","o"," ","o",
      "p","e","n"," ","r","e","p","o","s","i","t","o","r","y">>

\* The runs of "restic init" for caller p, [ok, output]: killed without
\* output under a cancelled context; refused on a repository that exists;
\* otherwise the repository is created; and at any time the repository may
\* be out of reach.
InitRuns(p) ==
    IF ctxDone[p] THEN {[ok |-> FALSE, output |-> <<>>]}
    ELSE {[ok |-> FALSE, output |-> OutUnreachable]}
         \cup (IF repoInit
               THEN {[ok |-> FALSE, output |-> OutAlreadyInitialized]}
               ELSE {[ok |-> TRUE, output |-> OutCreated]})

\* The "restic init" command as run.
InitCall(run) == [fn |-> "Init", ok |-> run.ok, output |-> run.output]

MutInitRepositoryNoCheck(p) ==
    /\ inflight[p].pc = "idle"
    /\ UNCHANGED <<store, nextId, clock, archived, codecVars, ctxDone, restoreHandler,
                 http>>
    /\ \E run \in InitRuns(p) :
          /\ repoInit' = (repoInit \/ run.ok)
          /\ Return(p, "initRepository", <<>>, <<InitCall(run)>>,
                    IF ~run.ok THEN <<ErrInitRepository>> ELSE <<>>,
                    NoTimeline, NoTimeline)

InitRepository(p) ==
    /\ inflight[p].pc = "idle"
    /\ UNCHANGED <<store, nextId, clock, archived, codecVars, ctxDone, restoreHandler,
                 http>>
    /\ \E run \in InitRuns(p) :
          /\ repoInit' = (repoInit \/ run.ok)
          /\ Return(p, "initRepository", <<>>, <<InitCall(run)>>,
                    IF ~run.ok /\ ~Contains(run.output, MsgAlreadyInitialized)
                    THEN <<ErrInitRepository>> ELSE <<>>,
                    NoTimeline, NoTimeline)

(***************************************************************************)
(* Start-up: the repository does not exist yet; it is initialised, used and *)
(* initialised again.                                                       *)
(***************************************************************************)
InitBoot ==
    /\ store = <<>>
    /\ nextId = 1
    /\ clock = 0
    /\ inflight = [p \in Callers |-> Idle]
    /\ last = NoCall
    /\ archived = NoTimeline
    /\ InitCodecIdle
    /\ repoInit = FALSE
    /\ restoreHandler = HandlerBuilt
    /\ ctxDone = [p \in Callers |-> FALSE]
    /\ http = NoHttp

NextBoot ==
    \/ \E p \in Callers : InitRepository(p)
    \/ \E p \in Callers, walPath \in WalPaths : ArchiveWAL(p, walPath)
    \/ \E p \in Callers : CurrentTimeline(p)
    \/ Tick

SpecBoot == InitBoot /\ [][NextBoot]_vars

(***************************************************************************)
(* The restore handler built with a client, or without one as the test of   *)
(* the restore package builds it; segments are archived through the backup  *)
(* handler, which has its client.                                           *)
(***************************************************************************)
InitHandlers ==
    /\ store = <<>>
    /\ nextId = 1
    /\ clock = 0
    /\ inflight = [p \in Callers |-> Idle]
    /\ last = NoCall
    /\ archived = NoTimeline
    /\ InitCodecIdle
    /\ repoInit = TRUE
    /\ ctxDone = [p \in Callers |-> FALSE]
    /\ restoreHandler \in {HandlerBuilt, HandlerNilClient}
    /\ http = NoHttp

NextHandlers ==
    \/ \E p \in Callers, walPath \in WalPaths : ArchiveWAL(p, walPath)
    \/ \E p \in Callers, in \in RestoreBackupInputs :
          RestoreBackup(p, in.snapshotID, in.targetDir)
    \/ \E p \in Callers, in \in RestoreWALInputs : RestoreWALFind(p, in)
    \/ \E p \in Callers : RestoreWALEnsure(p)
    \/ \E p \in Callers : RestoreWALFile(p)

SpecHandlers == InitHandlers /\ [][NextHandlers]_vars

(***************************************************************************)
(* Retention: cleanup on a repository that holds three WAL segments taken   *)
(* an hour apart and a full backup as old as the oldest segment. One unit   *)
(* of time is half an hour.                                                 *)
(***************************************************************************)
SeedSnapshot(id, time, tags) == [id |-> id, time |-> time, tags |-> tags]

\* The three segments at t-2h, t-1h and t, and the full backup at t-2h.
CleanupSeed ==
    [i \in 1..4 |->
        CASE i = 1 -> SeedSnapshot(1, 0, <<TagTypeWal, PrefixWalFile \o NameT1>>)
          [] i = 2 -> SeedSnapshot(2, 2, <<TagTypeWal, PrefixWalFile \o NameT2>>)
          [] i = 3 -> SeedSnapshot(3, 4, <<TagTypeWal, PrefixWalFile \o NameT3>>)
          [] i = 4 -> SeedSnapshot(4, 0, <<TagTypeFull>>)]

\* The orders in which the store may list them.
CleanupStores ==
    { <<CleanupSeed[1], CleanupSeed[2], CleanupSeed[3], CleanupSeed[4]>>,
      <<CleanupSeed[4], CleanupSeed[3], CleanupSeed[2], CleanupSeed[1]>>,
      <<CleanupSeed[2], CleanupSeed[4], CleanupSeed[1], CleanupSeed[3]>> }

\* The cut-offs handed to cleanup: before, between, at and after the times
\* of the segments; 1 is t-90m.
CleanupCutoffs == 0..5

InitCleanup ==
    /\ store \in CleanupStores
    /\ nextId = Len(store) + 1
    /\ clock = 4
    /\ inflight = [p \in Callers |-> Idle]
    /\ last = NoCall
    /\ archived = NoTimeline
    /\ InitCodecIdle
    /\ InitServing(Callers)

NextCleanup ==
    \/ \E p \in Callers, before \in CleanupCutoffs : CleanupList(p, before)
    \/ \E p \in Callers : CleanupDelete(p)

SpecCleanup == InitCleanup /\ [][NextCleanup]_vars

\* ---------------------------------------------------------------------------
\* A cleanup running beside archive and createBackup: two callers, each
\* handler split at its restic calls (manager.go:202-225, part_004:221-242).
\* ---------------------------------------------------------------------------
CleanupRaceStores == {<<>>, <<Fixture(1, NameT3)>>}

CleanupRaceCutoffs == {0, 1}

InitCleanupRace ==
    /\ store \in CleanupRaceStores
    /\ nextId = Len(store) + 1
    /\ clock = 0
    /\ inflight = [p \in RaceCallers |-> Idle]
    /\ last = NoCall
    /\ archived = NoTimeline
    /\ InitCodecIdle
    /\ InitServing(RaceCallers)

NextCleanupRace ==
    \/ \E p \in RaceCallers, before \in CleanupRaceCutoffs : CleanupList(p, before)
    \/ \E p \in RaceCallers : CleanupDelete(p)
    \/ \E p \in RaceCallers, walPath \in RaceWalPaths : ArchiveWAL(p, walPath)
    \/ \E p \in RaceCallers : CreateBackupResolve(p, DirData)
    \/ \E p \in RaceCallers : CreateBackupStore(p)

SpecCleanupRace == InitCleanupRace /\ [][NextCleanupRace]_vars

\* ---------------------------------------------------------------------------
\* The operations that only read the repository: restoreBackup, restoreSegment
\* and currentTimeline (part_008:40-71, manager.go:164-192, 235-268), called on
\* repositories that hold segments and a full backup.
\* ---------------------------------------------------------------------------
ReadOnlyStores == CleanupStores \cup SeedStores \cup {<<>>}

InitReadOnly ==
    /\ store \in ReadOnlyStores
    /\ nextId = Len(store) + 1
    /\ clock = 0
    /\ inflight = [p \in Callers |-> Idle]
    /\ last = NoCall
    /\ archived = NoTimeline
    /\ InitCodecIdle
    /\ InitServing(Callers)

NextReadOnly ==
    \/ \E p \in Callers, in \in RestoreBackupInputs :
          RestoreBackup(p, in.snapshotID, in.targetDir)
    \/ \E p \in Callers, in \in RestoreWALInputs : RestoreWALFind(p, in)
    \/ \E p \in Callers : RestoreWALEnsure(p)
    \/ \E p \in Callers : RestoreWALFile(p)
    \/ \E p \in Callers : CurrentTimeline(p)

SpecReadOnly == InitReadOnly /\ [][NextReadOnly]_vars

(***************************************************************************)
(* The plugin's HTTP layer. A request is [path, method, body]; body is the  *)
(* request body as json.Decode reads it, [wellFormed |-> FALSE] when the    *)
(* decoding fails. The plugin calls the handlers of the operations above    *)
(* and answers with the status of their result.                             *)
(***************************************************************************)
StatusOK == 200
StatusBadRequest == 400
StatusNotFound == 404
StatusMethodNotAllowed == 405
StatusInternalServerError == 500

MethodPost == "POST"
MethodGet == "GET"

\* filepath.Join of two elements, for elements without "." and ".." and
\* without repeated separators: the non-empty ones joined by a separator,
\* trailing separators removed.
Join(a, b) ==
    LET joined == IF a = <<>> THEN b
                  ELSE IF b = <<>> THEN a
                  ELSE a \o <<"/">> \o b
        c == StripTrailingSlashes(joined)
    IN  IF joined # <<>> /\ c = <<>> THEN <<"/">> ELSE c

\* What a handler function does with a request: answer at once with a
\* status, or call an operation and answer with the status of its result.
Reply(status) == [status |-> status, call |-> <<>>]
Invoke(op, arg) == [status |-> StatusOK, call |-> <<[op |-> op, arg |-> arg]>>]

MutHandleBackupAnyMethod(req) ==
    IF ~req.body.wellFormed THEN Reply(StatusBadRequest)
    ELSE Invoke("createBackup", req.body.dataFolder)

handleBackup(req) ==
    IF req.method # MethodPost THEN Reply(StatusMethodNotAllowed)
    ELSE IF ~req.body.wellFormed THEN Reply(StatusBadRequest)
    ELSE Invoke("createBackup", req.body.dataFolder)

MutHandleRestoreUsesTarget(req) ==
    IF req.method # MethodPost THEN Reply(StatusMethodNotAllowed)
    ELSE IF ~req.body.wellFormed THEN Reply(StatusBadRequest)
    ELSE Invoke("restoreBackup",
                [snapshotID |-> IF req.body.recoveryTarget # <<>>
                                THEN req.body.recoveryTarget[1].targetName
                                ELSE req.body.backupID,
                 targetDir |-> req.body.destFolder])

handleRestore(req) ==
    IF req.method # MethodPost THEN Reply(StatusMethodNotAllowed)
    ELSE IF ~req.body.wellFormed THEN Reply(StatusBadRequest)
    ELSE Invoke("restoreBackup",
                [snapshotID |-> req.body.backupID, targetDir |-> req.body.destFolder])

\* An archive handler that names the segment by walFileName.
MutHandleWALArchiveUsesName(req) ==
    IF req.method # MethodPost THEN Reply(StatusMethodNotAllowed)
    ELSE IF ~req.body.wellFormed THEN Reply(StatusBadRequest)
    ELSE Invoke("archive", IF req.body.walFilePath = <<>> THEN <<>>
                           ELSE DirWal \o req.body.walFileName)

handleWALArchive(req) ==
    IF req.method # MethodPost THEN Reply(StatusMethodNotAllowed)
    ELSE IF ~req.body.wellFormed THEN Reply(StatusBadRequest)
    ELSE Invoke("archive", req.body.walFilePath)

handleWALRestore(req) ==
    IF req.method # MethodPost THEN Reply(StatusMethodNotAllowed)
    ELSE IF ~req.body.wellFormed THEN Reply(StatusBadRequest)
    ELSE Invoke("restoreSegment",
                [walFile |-> req.body.walFileName,
                 targetPath |-> Join(req.body.destFolder, req.body.walFileName)])

\* The switch on r.URL.Path.
\* A router that hands every unknown path to the backup endpoint.
MutRouteNoDefault(req) ==
    CASE req.path = "/restore" -> handleRestore(req)
      [] req.path = "/wal-archive" -> handleWALArchive(req)
      [] req.path = "/wal-restore" -> handleWALRestore(req)
      [] OTHER -> handleBackup(req)

Route(req) ==
    CASE req.path = "/backup" -> handleBackup(req)
      [] req.path = "/restore" -> handleRestore(req)
      [] req.path = "/wal-archive" -> handleWALArchive(req)
      [] req.path = "/wal-restore" -> handleWALRestore(req)
      [] OTHER -> Reply(StatusNotFound)

\* Request bodies.
Malformed == [wellFormed |-> FALSE]
NoRecoveryTarget == <<>>
RecoveryTarget(time, name) ==
    <<[targetTime |-> time, targetXID |-> <<>>, targetLSN |-> <<>>,
       targetName |-> name, targetInclusive |-> TRUE]>>
TargetTimeTest == <<"2","0","2","4","-","0","1","-","0","1">>
TargetNameTest == <<"b","e","f","o","r","e">>
RecoveryTargets ==
    {NoRecoveryTarget, RecoveryTarget(TargetTimeTest, <<>>),
     RecoveryTarget(<<>>, TargetNameTest)}

BackupBodies ==
    {[wellFormed |-> TRUE, backupID |-> SnapshotIDTest, dataFolder |-> d,
      destinationPath |-> <<>>] : d \in DataDirs}
RestoreBodies ==
    {[wellFormed |-> TRUE, backupID |-> in.snapshotID, destFolder |-> in.targetDir,
      recoveryTarget |-> t] : in \in RestoreBackupInputs, t \in RecoveryTargets}
WALArchiveBodies ==
    {[wellFormed |-> TRUE, walFileName |-> n, walFilePath |-> w] :
        n \in {NameT1, NameInvalid}, w \in WalPaths}
WALRestoreBodies ==
    {[wellFormed |-> TRUE, walFileName |-> n, destFolder |-> DirRestore] :
        n \in {NameT1, NameT2, NameInvalid, <<>>}}

Endpoints == {"/backup", "/restore", "/wal-archive", "/wal-restore"}
\* The paths the usage guide lists as health checks, and one more.
HealthPaths == {"/healthz", "/readyz", "/metrics"}
OtherPaths == HealthPaths \cup {"/"}

BodiesOf(path) ==
    CASE path = "/backup" -> BackupBodies
      [] path = "/restore" -> RestoreBodies
      [] path = "/wal-archive" -> WALArchiveBodies
      [] path = "/wal-restore" -> WALRestoreBodies
      [] OTHER -> {Malformed}

\* The requests the model sends: to every endpoint a POST with each body and
\* with a body that does not decode, and a GET; to every other path a GET
\* and a POST.
Requests ==
    UNION {{[path |-> path, method |-> MethodPost, body |-> b] :
               b \in BodiesOf(path) \cup {Malformed}}
           \cup {[path |-> path, method |-> MethodGet, body |-> b] :
                    b \in BodiesOf(path)} : path \in Endpoints \cup OtherPaths}

\* ServeHTTP up to the call of the operation: the request is routed and
\* either answered at once or left waiting for its one call. The log of
\* invocations starts empty for the request.
ServeHTTP(p, req) ==
    /\ http.phase # "call"
    /\ inflight[p].pc = "idle"
    /\ http' = LET r == Route(req) IN
               IF r.call = <<>>
               THEN [phase |-> "done", req |-> req, status |-> r.status,
                     invoked |-> <<>>]
               ELSE [phase |-> "call", req |-> req, status |-> 0, invoked |-> <<>>]
    /\ last' = NoCall
    /\ UNCHANGED <<store, nextId, clock, inflight, archived, codecVars, envVars>>

\* The call the request being served still has to make, <<>> if none.
PendingCall ==
    IF http.phase = "call" /\ last.op = "none" THEN Route(http.req).call ELSE <<>>

Pending(op) == PendingCall # <<>> /\ PendingCall[1].op = op

HttpCreateBackup(p) ==
    Pending("createBackup") /\ CreateBackupResolve(p, PendingCall[1].arg)

HttpRestoreBackup(p) ==
    /\ Pending("restoreBackup")
    /\ RestoreBackup(p, PendingCall[1].arg.snapshotID, PendingCall[1].arg.targetDir)

HttpArchiveWAL(p) ==
    Pending("archive") /\ ArchiveWAL(p, PendingCall[1].arg)

HttpRestoreWAL(p) ==
    Pending("restoreSegment") /\ RestoreWALFind(p, PendingCall[1].arg)

MutHttpRespondAlwaysOK(p) ==
    /\ http.phase = "call"
    /\ last.op # "none"
    /\ inflight[p].pc = "idle"
    /\ http' = [http EXCEPT !.phase = "done", !.status = StatusOK,
                            !.invoked = <<[op |-> last.op, arg |-> last.arg]>>]
    /\ UNCHANGED <<progVars, codecVars, envVars>>

\* The end of a handler function: the operation has returned, and the
\* status is written from its error.
HttpRespond(p) ==
    /\ http.phase = "call"
    /\ last.op # "none"
    /\ inflight[p].pc = "idle"
    /\ http' = [http EXCEPT !.phase = "done",
                            !.status = IF last.err = <<>> THEN StatusOK
                                       ELSE StatusInternalServerError,
                            !.invoked = <<[op |-> last.op, arg |-> last.arg]>>]
    /\ UNCHANGED <<progVars, codecVars, envVars>>

NextHttp ==
    \/ \E p \in Callers, req \in Requests : ServeHTTP(p, req)
    \/ \E p \in Callers : HttpCreateBackup(p)
    \/ \E p \in Callers : CreateBackupStore(p)
    \/ \E p \in Callers : HttpRestoreBackup(p)
    \/ \E p \in Callers : HttpArchiveWAL(p)
    \/ \E p \in Callers : HttpRestoreWAL(p)
    \/ \E p \in Callers : RestoreWALEnsure(p)
    \/ \E p \in Callers : RestoreWALFile(p)
    \/ \E p \in Callers : HttpRespond(p)

SpecHttp == Init /\ [][NextHttp]_vars

(***************************************************************************)
(* Vocabulary of the properties                                             *)
(***************************************************************************)
HasPrefix(s, pre) == Len(s) >= Len(pre) /\ SubSeq(s, 1, Len(pre)) = pre
DropPrefix(s, pre) == SubSeq(s, Len(pre) + 1, Len(s))
TagsWithPrefix(tags, pre) == {i \in 1..Len(tags) : HasPrefix(tags[i], pre)}

\* A syntactically valid segment name: 24 characters, each 0-9 or A-F.
IsSegmentName(s) ==
    /\ Len(s) = 24
    /\ \A i \in 1..Len(s) :
          s[i] \in {"0","1","2","3","4","5","6","7","8","9","A","B","C","D","E","F"}

\* The successful store.backup calls of an invocation.
BackupCalls(calls) == {i \in 1..Len(calls) : calls[i].fn = "Backup"}

WalSnapshots == {i \in 1..Len(store) : TagTypeWal \in Range(store[i].tags)}
FullSnapshots == {i \in 1..Len(store) : TagTypeFull \in Range(store[i].tags)}

\* C1: a successful archive(walPath) with a valid base name calls store.backup
\* exactly once, with walPath and exactly the five tags type:wal,
\* timeline:<decimal>, logical_id:<decimal>, segment_id:<decimal>,
\* wal_file:<base name>; /wal/000000010000000000000001 gives timeline:1,
\* logical_id:0, segment_id:1.
ExpectedWalTags(walPath) ==
    IF walPath = DirWal \o NameT1
    THEN { TagTypeWal, <<"t","i","m","e","l","i","n","e",":","1">>, <<"l","o","g","i","c","a","l","_","i","d",":","0">>,
           <<"s","e","g","m","e","n","t","_","i","d",":","1">>,
           <<"w","a","l","_","f","i","l","e",":","0","0","0","0","0","0","0","1","0","0","0","0","0","0","0","0","0","0","0","0","0","0","0","1">> }
    ELSE { TagTypeWal, <<"t","i","m","e","l","i","n","e",":","2">>, <<"l","o","g","i","c","a","l","_","i","d",":","0">>,
           <<"s","e","g","m","e","n","t","_","i","d",":","2","5","5">>,
           <<"w","a","l","_","f","i","l","e",":","0","0","0","0","0","0","0","2","0","0","0","0","0","0","0","0","0","0","0","0","0","0","F","F">> }

C1_ArchiveTagsExact ==
    (last.op = "archive" /\ last.err = <<>>) =>
        /\ Len(last.calls) = 1
        /\ last.calls[1].fn = "Backup"
        /\ last.calls[1].ok
        /\ last.calls[1].path = last.arg
        /\ Len(last.calls[1].tags) = 5
        /\ Range(last.calls[1].tags) = ExpectedWalTags(last.arg)

C1_Witness ==
    /\ last.op = "archive" /\ last.err = <<>>
    /\ last.arg = DirWal \o NameT1
    /\ \E i \in WalSnapshots : Range(store[i].tags) = ExpectedWalTags(last.arg)

\* C2: createBackup(dataDir) with a non-empty dataDir, against a store whose
\* first-listed type:wal snapshot belongs to timeline n, calls store.backup with
\* dataDir and exactly the tags {type:full, timeline:<n>}.
C2_FullBackupTagged ==
    ( /\ last.op = "createBackup" /\ last.arg # <<>>
      /\ Len(last.calls) >= 1 /\ last.calls[1].ok /\ last.calls[1].snaps # <<>>
      /\ TagsWithPrefix(last.calls[1].snaps[1].tags, PrefixTimeline) # {} ) =>
        LET first == last.calls[1].snaps[1].tags
            n == CHOOSE i \in TagsWithPrefix(first, PrefixTimeline) : TRUE
        IN  /\ Len(last.calls) = 2
            /\ last.calls[2].fn = "Backup"
            /\ last.calls[2].path = last.arg
            /\ Range(last.calls[2].tags) = {TagTypeFull, first[n]}

\* C3: every type:full snapshot carries exactly one timeline tag, whose value is
\* the timeline active when the backup was taken: that of the segment archived
\* most recently, or 1 if none had been archived.
DecimalOfTimeline(t) ==
    IF t = NoTimeline \/ t = <<1, 0>> THEN <<"1">>
    ELSE IF t = <<2, 0>> THEN <<"2">> ELSE <<"3">>

C3_FullTimelineIsActive ==
    (last.op = "createBackup" /\ last.err = <<>>) =>
        LET tags == last.calls[2].tags IN
        /\ Cardinality(TagsWithPrefix(tags, PrefixTimeline)) = 1
        /\ PrefixTimeline \o DecimalOfTimeline(last.active) \in Range(tags)

\* C4: every snapshot tagged type:wal carries a wal_file tag whose value is a
\* syntactically valid segment name.
C4_WalFileTagValid ==
    \A i \in WalSnapshots :
        \E j \in TagsWithPrefix(store[i].tags, PrefixWalFile) :
            IsSegmentName(DropPrefix(store[i].tags[j], PrefixWalFile))

C4_Witness ==
    /\ WalSnapshots # {}
    /\ FullSnapshots # {}

\* C5: currentTimeline() returns timeline 1 and no error whenever the store
\* lists zero type:wal snapshots.
C5_BootstrapTimeline ==
    ( /\ last.op = "currentTimeline"
      /\ last.calls[1].ok /\ last.calls[1].snaps = <<>> ) =>
        last.err = <<>> /\ last.timeline = <<1, 0>>

C5_Witness ==
    /\ last.op = "currentTimeline"
    /\ last.calls[1].ok /\ last.calls[1].snaps = <<>>
    /\ FullSnapshots # {}

\* C6: with at least one type:wal snapshot listed, currentTimeline() looks only
\* at the first one: if none of its tags is a segment name the call fails as
\* unresolved, never defaulting to 1 and never consulting later snapshots; if
\* one is, its timeline is returned.
HasNameTag(snap) == \E i \in 1..Len(snap.tags) : IsSegmentName(snap.tags[i])

C6_FirstSnapshotOnly ==
    ( /\ last.op = "currentTimeline"
      /\ last.calls[1].ok /\ last.calls[1].snaps # <<>> ) =>
        LET first == last.calls[1].snaps[1] IN
        /\ ~HasNameTag(first) => last.err = <<ErrNoValidWAL>> /\ last.timeline = NoTimeline
        /\ NameT1 \in Range(first.tags) => last.err = <<>> /\ last.timeline = <<1, 0>>
        /\ NameT3 \in Range(first.tags) => last.err = <<>> /\ last.timeline = <<3, 0>>

C6_Witness ==
    /\ last.op = "currentTimeline"
    /\ last.calls[1].ok /\ Len(last.calls[1].snaps) >= 2
    /\ ~HasNameTag(last.calls[1].snaps[1])
    /\ HasNameTag(last.calls[1].snaps[2])
    /\ last.err # <<>>

\* C7: parse(name) succeeds exactly when name is 24 characters of uppercase
\* hexadecimal digits; every other string fails with InvalidFormat.
C7_ParseAcceptsExactly ==
    cResult # <<>> =>
        /\ IsSegmentName(cName) <=> cResult.err = ""
        /\ ~IsSegmentName(cName) => cResult.err = ErrInvalidFormat

C7_Witness ==
    /\ cResult # <<>>
    /\ cResult.err = ErrInvalidFormat
    /\ Len(cName) = 24
    /\ cTriple = <<>>

\* C8: for every triple with components below 2^32, parsing the name that
\* writes the components as 8-digit uppercase hexadecimal yields that triple.
C8_RoundTrip ==
    (cResult # <<>> /\ cTriple # <<>>) =>
        /\ cResult.err = ""
        /\ cResult.seg.Timeline = cTriple[1]
        /\ cResult.seg.LogicalID = cTriple[2] \o <<0, 0>>
        /\ cResult.seg.SegmentID = cTriple[3] \o <<0, 0>>

C8_Witness ==
    /\ cResult # <<>>
    /\ cTriple = << <<65535, 65535>>, <<0, 32768>>, <<61202, 43981>> >>
    /\ cName = <<"F","F","F","F","F","F","F","F","8","0","0","0","0","0","0","0","A","B","C","D","E","F","1","2">>

\* C9: archive(walPath) whose base name is not a valid segment name fails with
\* InvalidSegmentName and issues no store call.
C9_InvalidNameNoStoreCall ==
    ( /\ last.op = "archive" /\ last.arg # <<>>
      /\ ~IsSegmentName(Base(last.arg)) ) =>
        /\ last.err = <<ErrArchiveWAL, ErrParseName, ErrInvalidFormat>>
        /\ last.calls = <<>>

C9_Witness ==
    /\ last.op = "archive"
    /\ last.arg = DirWal \o NameInvalid
    /\ last.err # <<>>

\* C10: createBackup returns an error and never calls store.backup when the
\* timeline cannot be resolved (the listing fails, or the first listed snapshot
\* has no segment name among its tags); store.backup is only called after a
\* successful resolution.
Resolved(found) ==
    /\ found.fn = "FindSnapshots"
    /\ found.ok
    /\ found.snaps # <<>> => HasNameTag(found.snaps[1])

C10_BackupOnlyAfterResolution ==
    /\ (last.op = "createBackup" /\ last.calls # <<>>) =>
          /\ ~Resolved(last.calls[1]) => last.err # <<>> /\ BackupCalls(last.calls) = {}
          /\ BackupCalls(last.calls) \subseteq {2}
          /\ BackupCalls(last.calls) # {} => Resolved(last.calls[1])
    /\ \A p \in Callers :
          inflight[p].pc = "backup" =>
              Len(inflight[p].calls) = 1 /\ Resolved(inflight[p].calls[1])

C10_Witness ==
    /\ last.op = "createBackup"
    /\ last.calls # <<>> /\ last.calls[1].ok /\ last.calls[1].snaps # <<>>
    /\ ~HasNameTag(last.calls[1].snaps[1])
    /\ last.err = <<ErrGetTimeline, ErrNoValidWAL>>

(***************************************************************************)
(* C11: when the Backup call fails, archive() and createBackup() return an  *)
(* error, never success, and the step that returns leaves the repository as *)
(* it was (no step that changes the repository is the return of an archive  *)
(* or a createBackup whose Backup call failed); createBackup() returns      *)
(* success only after a Backup call that succeeded.                         *)
(***************************************************************************)
FailedBackup(calls) == \E i \in BackupCalls(calls) : ~calls[i].ok

ArchiveOrBackupReturns ==
    \/ \E p \in Callers, walPath \in WalPaths : ArchiveWAL(p, walPath)
    \/ \E p \in Callers : CreateBackupStore(p)

C11_BackupFailureReported ==
    /\ []((last.op \in {"archive", "createBackup"} /\ FailedBackup(last.calls))
            => last.err # <<>>)
    /\ []((last.op = "createBackup" /\ last.err = <<>>)
            => \E i \in BackupCalls(last.calls) : last.calls[i].ok)
    /\ [][(/\ store' # store
            /\ last'.op \in {"archive", "createBackup"}
            /\ FailedBackup(last'.calls))
            => ~ArchiveOrBackupReturns]_vars

C11_Witness ==
    /\ last.op = "createBackup"
    /\ FailedBackup(last.calls)
    /\ last.err # <<>>
    /\ store # <<>>

(***************************************************************************)
(* C12: createBackup("") returns an error and issues no store call, neither *)
(* the listing nor the backup.                                              *)
(***************************************************************************)
C12_EmptyDataDirRejected ==
    /\ (last.op = "createBackup" /\ last.arg = <<>>)
          => (last.err # <<>> /\ last.calls = <<>>)
    /\ \A p \in Callers : inflight[p].op = "createBackup" => inflight[p].arg # <<>>

C12_Witness ==
    /\ last.op = "createBackup"
    /\ last.arg = <<>>
    /\ last.err # <<>>

(***************************************************************************)
(* C13: archive("") returns an error and issues no store call.              *)
(***************************************************************************)
C13_EmptyWalPathRejected ==
    (last.op = "archive" /\ last.arg = <<>>)
        => (last.err # <<>> /\ last.calls = <<>>)

C13_Witness ==
    /\ last.op = "archive"
    /\ last.arg = <<>>
    /\ last.err = <<ErrNoWalPath>>

(***************************************************************************)
(* C14: every archive whose Backup call succeeds adds exactly one snapshot, *)
(* with a new id and the tags of its segment, whatever the repository       *)
(* already holds; an archive of a valid segment always issues its Backup    *)
(* call and fails only when that call fails, so two archives of the same    *)
(* segment, one after the other or overlapping, leave two snapshots with    *)
(* the same tags.                                                           *)
(***************************************************************************)
SnapshotIds(snaps) == {snaps[i].id : i \in 1..Len(snaps)}

WithoutIndex(snaps, k) == SubSeq(snaps, 1, k - 1) \o SubSeq(snaps, k + 1, Len(snaps))

AddsOneSnapshot(tags) ==
    /\ Len(store') = Len(store) + 1
    /\ \E k \in 1..Len(store') :
          /\ Range(store'[k].tags) = tags
          /\ Len(store'[k].tags) = Cardinality(tags)
          /\ store'[k].id \notin SnapshotIds(store)
          /\ WithoutIndex(store', k) = store

C14_ArchiveAlwaysAddsOne ==
    /\ []((last.op = "archive" /\ last.arg \in RaceWalPaths)
            => /\ Len(last.calls) = 1
               /\ last.calls[1].fn = "Backup"
               /\ (last.err = <<>>) <=> last.calls[1].ok)
    /\ [][\A p \in RaceCallers :
            (ArchiveWALStore(p) /\ last'.err = <<>>)
                => AddsOneSnapshot(ExpectedWalTags(inflight[p].arg))]_vars

C14_Witness ==
    /\ Len(store) = 2
    /\ store[1].tags = store[2].tags
    /\ store[1].id # store[2].id
    /\ Range(store[1].tags) = ExpectedWalTags(DirWal \o NameT1)
    /\ last.op = "archive"
    /\ last.err = <<>>
    /\ \E p \in RaceCallers : inflight[p].pc = "archive" /\ inflight[p].arg = last.arg

(***************************************************************************)
(* C15: restoreSegment() of a valid name, on a repository that holds no     *)
(* snapshot tagged both type:wal and wal_file:<name>, returns at once: with *)
(* "WAL segment not found" when the listing succeeded, and never with a     *)
(* RestoreFile call. Stated as: the restore goes on past the listing only   *)
(* when the repository holds such a snapshot at that step; a restore that   *)
(* returns after a listing that succeeded returns "WAL segment not found";  *)
(* and no invocation that returns it has called RestoreFile.                *)
(***************************************************************************)
WalFileTag(name) == <<"w","a","l","_","f","i","l","e",":">> \o name

SegmentSnapshots(name) ==
    {i \in 1..Len(store) :
        /\ TagTypeWal \in Range(store[i].tags)
        /\ WalFileTag(name) \in Range(store[i].tags)}

RestoreFileCalls(calls) == {i \in 1..Len(calls) : calls[i].fn = "RestoreFile"}

ErrChainSegmentNotFound ==
    <<"failed to restore WAL segment", "WAL segment not found">>

C15_MissingSegmentNotFound ==
    /\ [][\A p \in Callers :
            (inflight[p].pc = "idle" /\ inflight'[p].op = "restoreSegment")
                => SegmentSnapshots(inflight'[p].arg.walFile) # {}]_vars
    /\ []((last.op = "restoreSegment" /\ IsSegmentName(last.arg.walFile))
            => /\ Len(last.calls) >= 1
               /\ last.calls[1].fn = "FindSnapshots"
               /\ Len(last.calls) = 1
                     => /\ last.err # <<>>
                        /\ last.calls[1].ok => last.err = ErrChainSegmentNotFound)
    /\ []((last.op = "restoreSegment" /\ last.err = ErrChainSegmentNotFound)
            => RestoreFileCalls(last.calls) = {})

C15_Witness ==
    /\ last.op = "restoreSegment"
    /\ last.err = ErrChainSegmentNotFound
    /\ IsSegmentName(last.arg.walFile)
    /\ SegmentSnapshots(last.arg.walFile) = {}
    /\ WalSnapshots # {}

(***************************************************************************)
(* C16: restoreSegment() of a name that is not 24 upper-case hex digits,    *)
(* the empty name included, fails with the parse error before any store     *)
(* call: no listing, no EnsureDirectory, no RestoreFile.                    *)
(***************************************************************************)
ErrChainInvalidName ==
    <<"failed to restore WAL segment", "failed to parse WAL file name",
      "invalid WAL file name format">>

C16_InvalidNameRejected ==
    /\ (last.op = "restoreSegment" /\ ~IsSegmentName(last.arg.walFile))
          => (last.err = ErrChainInvalidName /\ last.calls = <<>>)
    /\ \A p \in Callers :
          inflight[p].op = "restoreSegment" => IsSegmentName(inflight[p].arg.walFile)

C16_Witness ==
    /\ last.op = "restoreSegment"
    /\ last.arg.walFile = <<>>
    /\ last.err = ErrChainInvalidName
    /\ WalSnapshots # {}

(***************************************************************************)
(* C17: when the listing holds several snapshots, RestoreFile is given the  *)
(* id of the first one listed.                                              *)
(***************************************************************************)
C17_FirstListedSnapshotUsed ==
    /\ (last.op = "restoreSegment" /\ RestoreFileCalls(last.calls) # {})
          => \A i \in RestoreFileCalls(last.calls) :
                last.calls[i].snapshotID = last.calls[1].snaps[1].id
    /\ \A p \in Callers :
          inflight[p].op = "restoreSegment"
              => inflight[p].backupID = inflight[p].calls[1].snaps[1].id

C17_Witness ==
    /\ last.op = "restoreSegment"
    /\ RestoreFileCalls(last.calls) # {}
    /\ Len(last.calls[1].snaps) >= 2
    /\ last.calls[1].snaps[1].id # last.calls[1].snaps[2].id
    /\ last.calls[1].snaps[1].id > last.calls[1].snaps[2].id

(***************************************************************************)
(* C18: a restoreSegment() that found a snapshot calls EnsureDirectory on   *)
(* the parent directory of targetPath and only then RestoreFile, at most    *)
(* once, with the name as the file and targetPath as the target; when       *)
(* EnsureDirectory fails RestoreFile is not called and an error is          *)
(* returned; the operation succeeds only if RestoreFile succeeded.          *)
(***************************************************************************)
ParentOf(targetPath) ==
    IF targetPath = <<"/","x">> THEN <<"/">>
    ELSE <<"/","r","e","s","t","o","r","e">>

FoundSnapshot(calls) ==
    /\ Len(calls) >= 1
    /\ calls[1].fn = "FindSnapshots"
    /\ calls[1].ok
    /\ calls[1].snaps # <<>>

EnsuredParent(calls, targetPath) ==
    /\ Len(calls) >= 2
    /\ calls[2].fn = "EnsureDirectory"
    /\ calls[2].path = ParentOf(targetPath)

C18_EnsureThenRestoreFile ==
    /\ (last.op = "restoreSegment" /\ FoundSnapshot(last.calls))
          => /\ EnsuredParent(last.calls, last.arg.targetPath)
             /\ IF ~last.calls[2].ok
                THEN Len(last.calls) = 2 /\ last.err # <<>>
                ELSE /\ Len(last.calls) = 3
                     /\ RestoreFileCalls(last.calls) = {3}
                     /\ last.calls[3].file = last.arg.walFile
                     /\ last.calls[3].targetPath = last.arg.targetPath
                     /\ (last.err = <<>>) <=> last.calls[3].ok
    /\ (last.op = "restoreSegment" /\ last.err = <<>>)
          => \E i \in RestoreFileCalls(last.calls) : last.calls[i].ok
    /\ \A p \in Callers :
          /\ inflight[p].pc = "ensure" => Len(inflight[p].calls) = 1
          /\ inflight[p].pc = "restoreFile"
                => /\ Len(inflight[p].calls) = 2
                   /\ EnsuredParent(inflight[p].calls, inflight[p].arg.targetPath)
                   /\ inflight[p].calls[2].ok

C18_Witness ==
    /\ last.op = "restoreSegment"
    /\ last.err = <<>>
    /\ Len(last.calls) = 3
    /\ last.calls[2].path = <<"/","r","e","s","t","o","r","e">>
    /\ last.calls[3].ok

C20_EmptyArgumentsRejected ==
    (last.op = "restoreBackup"
        /\ (last.arg.snapshotID = <<>> \/ last.arg.targetDir = <<>>))
        => (last.err # <<>> /\ last.calls = <<>>)

\* The ids of the type:wal snapshots among snaps taken strictly before cutoff.
OlderWalIds(snaps, cutoff) ==
    {snaps[i].id : i \in {k \in 1..Len(snaps) :
        TagTypeWal \in Range(snaps[k].tags) /\ snaps[k].time < cutoff}}

DeleteCalls(calls) == {i \in 1..Len(calls) : calls[i].fn = "DeleteSnapshots"}

\* C21: cleanupBefore(cutoff) asks the store to delete exactly the ids of the
\* type:wal snapshots whose time is strictly before cutoff: a snapshot taken
\* at the cutoff or later is never among them, every strictly older one is,
\* and no id is requested twice. With segments at t-2h, t-1h and t and the
\* cutoff t-90m, only the segment at t-2h is deleted.
C21_DeletesExactlyOlderWal ==
    /\ \A p \in Callers :
          inflight[p].pc = "delete" =>
            /\ Range(inflight[p].del) = OlderWalIds(store, inflight[p].arg)
            /\ Len(inflight[p].del) = Cardinality(Range(inflight[p].del))
    /\ (last.op = "cleanupBefore" /\ last.calls[1].ok) =>
          \A i \in DeleteCalls(last.calls) :
            /\ Range(last.calls[i].ids) = OlderWalIds(last.calls[1].snaps, last.arg)
            /\ last.calls[i].ok =>
                  /\ OlderWalIds(store, last.arg) = {}
                  /\ Range(last.calls[i].ids) \cap SnapshotIds(store) = {}
                  /\ SnapshotIds(last.calls[1].snaps) \ Range(last.calls[i].ids)
                        \subseteq SnapshotIds(store)
    /\ \A i \in FullSnapshots : store[i] = CleanupSeed[4]
    /\ FullSnapshots # {}

\* The example: the cutoff t-90m removed the segment at t-2h and nothing else.
C21_Witness ==
    /\ last.op = "cleanupBefore"
    /\ last.arg = 1
    /\ Len(last.calls) = 2
    /\ last.calls[2].ids = <<1>>
    /\ last.calls[2].ok
    /\ SnapshotIds(store) = {2, 3, 4}

\* The snapshots an invocation of cleanup removed: those it listed that the
\* store no longer holds.
Removed(inv) ==
    IF inv.calls[1].ok THEN SnapshotIds(inv.calls[1].snaps) \ SnapshotIds(store)
    ELSE {}

AllCallsOk(calls) == \A i \in 1..Len(calls) : calls[i].ok

C23_NothingOlderNoDelete ==
    /\ \A p \in Callers :
          inflight[p].pc = "delete" => OlderWalIds(store, inflight[p].arg) # {}
    /\ (/\ last.op = "cleanupBefore"
        /\ last.calls[1].ok
        /\ OlderWalIds(last.calls[1].snaps, last.arg) = {}) =>
          /\ last.err = <<>>
          /\ DeleteCalls(last.calls) = {}
          /\ Len(last.calls) = 1
    /\ \A i \in DeleteCalls(last.calls) : last.calls[i].ids # <<>>

\* Cleanup on a repository without WAL snapshots, and cleanup with a cutoff
\* equal to the time of the oldest segment.
C23_Witness ==
    /\ last.op = "cleanupBefore"
    /\ last.calls[1].ok
    /\ last.err = <<>>
    /\ Len(last.calls) = 1
    /\ \/ last.calls[1].snaps = <<>>
       \/ /\ Len(last.calls[1].snaps) = 3
          /\ last.arg = 0

SingleAttempt(calls) ==
    /\ \A i, j \in 1..Len(calls) : calls[i].fn = calls[j].fn => i = j
    /\ \A i \in 1..Len(calls) : ~calls[i].ok => i = Len(calls)

InitCalls(calls) == {i \in 1..Len(calls) : calls[i].fn = "Init"}

\* C26: initRepository is idempotent. Run on a repository that is already
\* initialised, where restic reports just that, it returns success; it
\* returns success only on an initialised repository; and a call on an
\* initialised repository leaves it initialised and its snapshots as they
\* were, however often it is repeated.
C26_InitIdempotent ==
    /\ [](last.op = "initRepository" =>
            /\ last.calls[1].output = OutAlreadyInitialized => last.err = <<>>
            /\ last.err = <<>> => repoInit
            /\ last.err # <<>> => ~last.calls[1].ok)
    /\ [][/\ repoInit => repoInit'
          /\ (last'.op = "initRepository" /\ last' # last) =>
                (store' = store /\ nextId' = nextId)]_vars

\* initRepository on a repository that already holds a snapshot.
C26_Witness ==
    /\ last.op = "initRepository"
    /\ last.calls[1].output = OutAlreadyInitialized
    /\ last.err = <<>>
    /\ store # <<>>
    /\ repoInit

\* A request the plugin has answered.
Answered == http.phase = "done"

WellFormedPost(paths) ==
    /\ http.phase # "idle"
    /\ http.req.path \in paths
    /\ http.req.method = MethodPost
    /\ http.req.body.wellFormed

\* The request being served with another recovery target.
WithTarget(req, t) == [req EXCEPT !.body.recoveryTarget = t]

C28_NonPostRejected ==
    (/\ http.phase # "idle"
     /\ http.req.path \in Endpoints
     /\ http.req.method # MethodPost) =>
        /\ Answered
        /\ http.status = StatusMethodNotAllowed
        /\ http.invoked = <<>>
        /\ last = NoCall
        /\ \A p \in Callers : inflight[p].pc = "idle"

\* A GET to /backup with a body that a POST would have accepted.
C28_Witness ==
    /\ Answered
    /\ http.req.path = "/backup"
    /\ http.req.method = MethodGet
    /\ http.req.body.wellFormed
    /\ http.req.body.dataFolder = DirData
    /\ http.status = StatusMethodNotAllowed

\* The operation each endpoint calls.
OperationOf(path) ==
    CASE path = "/backup" -> "createBackup"
      [] path = "/restore" -> "restoreBackup"
      [] path = "/wal-archive" -> "archive"

\* C29: a well-formed POST to /backup, /restore or /wal-archive is answered
\* only after its operation has returned, with 200 exactly when the
\* operation returned success and with 500 when it returned an error, and
\* the operation was invoked exactly once for the request.
C29_StatusFollowsHandler ==
    WellFormedPost({"/backup", "/restore", "/wal-archive"}) =>
        /\ ~Answered => (http.status = 0 /\ http.invoked = <<>>)
        /\ Answered =>
              /\ Len(http.invoked) = 1
              /\ http.invoked[1].op = OperationOf(http.req.path)
              /\ last.op = http.invoked[1].op /\ last.arg = http.invoked[1].arg
              /\ (http.status = StatusOK) <=> (last.err = <<>>)
              /\ last.err # <<>> => http.status = StatusInternalServerError

\* An archive request whose store call failed, answered 500.
C29_Witness ==
    /\ WellFormedPost({"/wal-archive"})
    /\ Answered
    /\ http.status = StatusInternalServerError
    /\ Len(last.calls) = 1
    /\ ~last.calls[1].ok

\* C30: a request to /healthz, /readyz or /metrics is served and not
\* answered 404.
C30_HealthEndpointsServed ==
    (Answered /\ http.req.path \in HealthPaths) => http.status # StatusNotFound

Panicked(inv) == inv.err = <<PanicNilDeref>>

\* C31: restoreBackup and restoreSegment called on a restore handler that was
\* built without a store client each return an error to the caller: they do
\* not crash and do not report success.
C31_NilClientReturnsError ==
    (restoreHandler = HandlerNilClient
       /\ last.op \in {"restoreBackup", "restoreSegment"}) =>
        /\ last.err # <<>>
        /\ ~Panicked(last)

\* a < b for unsigned integers of the same width, least significant limb
\* first.
RECURSIVE LimbsLess(_, _)
LimbsLess(a, b) ==
    IF a = <<>> THEN FALSE
    ELSE LET n == Len(a) IN
         \/ a[n] < b[n]
         \/ a[n] = b[n] /\ LimbsLess(SubSeq(a, 1, n - 1), SubSeq(b, 1, n - 1))

TripleOf(seg) == <<seg.Timeline, seg.LogicalID, seg.SegmentID>>

\* The segment order: timeline first, then logicalFileID, then segmentID.
SegmentBefore(a, b) ==
    \/ LimbsLess(a.Timeline, b.Timeline)
    \/ a.Timeline = b.Timeline /\ LimbsLess(a.LogicalID, b.LogicalID)
    \/ a.Timeline = b.Timeline /\ a.LogicalID = b.LogicalID
          /\ LimbsLess(a.SegmentID, b.SegmentID)

Parsed == {i \in 1..3 : oSegs[i].err = ""}

\* C32: the order that compares timeline, then logicalFileID, then segmentID
\* is a strict total order on parsed segments, and parsing keeps segments
\* apart: two distinct valid names never parse to the same triple, of two
\* segments with distinct triples exactly one is before the other, no segment
\* is before itself, and the relation is transitive.
C32_SegmentOrderTotal ==
    oSegs # <<>> =>
        /\ \A i, j \in Parsed :
              /\ oNames[i] # oNames[j] => TripleOf(oSegs[i].seg) # TripleOf(oSegs[j].seg)
              /\ TripleOf(oSegs[i].seg) # TripleOf(oSegs[j].seg) =>
                    (SegmentBefore(oSegs[i].seg, oSegs[j].seg)
                       <=> ~SegmentBefore(oSegs[j].seg, oSegs[i].seg))
              /\ oNames[i] = oNames[j] => ~SegmentBefore(oSegs[i].seg, oSegs[j].seg)
        /\ \A i, j, k \in Parsed :
              (SegmentBefore(oSegs[i].seg, oSegs[j].seg)
                 /\ SegmentBefore(oSegs[j].seg, oSegs[k].seg))
                => SegmentBefore(oSegs[i].seg, oSegs[k].seg)

\* Three segments that differ in the timeline's high half only, in the
\* logicalFileID only and in the segmentID only, parsed and in order.
C32_Witness ==
    /\ oSegs # <<>>
    /\ Parsed = {1, 2, 3}
    /\ oSegs[1].seg.Timeline = <<1, 0>> /\ oSegs[2].seg.Timeline = <<1, 1>>
    /\ oSegs[3].seg.Timeline = <<1, 1>>
    /\ oSegs[2].seg.LogicalID = oSegs[3].seg.LogicalID
    /\ SegmentBefore(oSegs[1].seg, oSegs[2].seg)
    /\ SegmentBefore(oSegs[2].seg, oSegs[3].seg)
    /\ SegmentBefore(oSegs[1].seg, oSegs[3].seg)

\* A snapshot as archive() writes it: type:wal with a wal_file tag that holds
\* a segment name.
WrittenByArchive(snap) ==
    /\ TagTypeWal \in Range(snap.tags)
    /\ \E i \in TagsWithPrefix(snap.tags, PrefixWalFile) :
          IsSegmentName(DropPrefix(snap.tags[i], PrefixWalFile))

\* C33: archive then resolve. When the store lists first, among the type:wal
\* snapshots, one that archive() stored for a segment of timeline T, then
\* currentTimeline() returns T, and createBackup succeeds with the tag
\* timeline:T.
C33_ArchiveThenResolve ==
    ( /\ last.op \in {"currentTimeline", "createBackup"}
      /\ Len(last.calls) >= 1 /\ last.calls[1].ok /\ last.calls[1].snaps # <<>>
      /\ WrittenByArchive(last.calls[1].snaps[1]) ) =>
        LET first == last.calls[1].snaps[1].tags
            n == CHOOSE i \in TagsWithPrefix(first, PrefixTimeline) : TRUE
        IN  /\ last.op = "currentTimeline" =>
                  /\ last.err = <<>>
                  /\ PrefixTimeline \o DecimalOfTimeline(last.timeline) = first[n]
            /\ (last.op = "createBackup" /\ last.arg # <<>> /\ AllCallsOk(last.calls)) =>
                  /\ last.err = <<>>
                  /\ Len(last.calls) = 2
                  /\ first[n] \in Range(last.calls[2].tags)

\* The snapshots of the store that are not tagged type:wal.
NotWal(snaps) == {snaps[i] : i \in {k \in 1..Len(snaps) : TagTypeWal \notin Range(snaps[k].tags)}}

\* C34: cleanupBefore never deletes a snapshot that is not tagged type:wal.
\* Whatever the cutoff, every step of a cleanup leaves each such snapshot,
\* the type:full ones among them, in the store, and no deletion request
\* names the id of one.
C34_CleanupKeepsFullBackups ==
    /\ [][NotWal(store) \subseteq NotWal(store')]_vars
    /\ [](\A p \in Callers :
            Range(inflight[p].del) \cap {snap.id : snap \in NotWal(store)} = {})

\* A cleanup with a cutoff later than every snapshot, the full backup
\* included, has deleted all segments and left the full backup.
C34_Witness ==
    /\ last.op = "cleanupBefore"
    /\ last.arg = 5
    /\ Len(last.calls) = 2 /\ last.calls[2].ok
    /\ store = <<CleanupSeed[4]>>

\* ---------------------------------------------------------------------------
\* C35: a cleanupBefore invocation asks restic to delete only ids that its own
\* listing returned, so a deleting step removes nothing that was stored after
\* that listing; and a createBackup that runs beside it stores the tags of the
\* timeline its own listing resolved and succeeds exactly when its own backup
\* call does, whatever was deleted in between.
\* ---------------------------------------------------------------------------
OwnListing(inv) == SnapshotIds(inv.calls[1].snaps)

C35_CleanupDeletesOwnListing ==
    /\ [](\A p \in RaceCallers :
            inflight[p].pc = "delete" => Range(inflight[p].del) \subseteq OwnListing(inflight[p]))
    /\ [](last.op = "cleanupBefore" =>
            \A i \in DeleteCalls(last.calls) :
                Range(last.calls[i].ids) \subseteq OwnListing(last))
    /\ [][\A p \in RaceCallers :
            inflight[p].pc = "delete" /\ inflight'[p].pc = "idle" =>
                /\ SnapshotIds(store) \ SnapshotIds(store') \subseteq OwnListing(inflight[p])
                /\ SnapshotIds(store') \subseteq SnapshotIds(store)]_vars
    /\ [][\A p \in RaceCallers :
            inflight[p].pc = "backup" /\ inflight'[p].pc = "idle" =>
                LET resolved == GetWALTimeline(inflight[p].calls[1]) IN
                /\ resolved.err = <<>>
                /\ last'.calls[2].tags = BackupTags(resolved.timeline)
                /\ (last'.err = <<>>) = last'.calls[2].ok
                /\ last'.calls[2].ok =>
                       /\ Len(store') = Len(store) + 1
                       /\ \E i \in 1..Len(store') :
                             /\ store'[i].tags = BackupTags(resolved.timeline)
                             /\ store'[i].id \notin SnapshotIds(store)]_vars

\* A cleanup has deleted what it listed while a segment archived after the
\* listing, itself older than the cutoff, is still in the repository.
C35_Witness ==
    /\ last.op = "cleanupBefore"
    /\ Len(last.calls) = 2 /\ last.calls[2].ok
    /\ \E i \in 1..Len(store) :
          /\ TagTypeWal \in Range(store[i].tags)
          /\ Before(store[i].time, last.arg)
          /\ store[i].id \notin OwnListing(last)

\* ---------------------------------------------------------------------------
\* C36: restoreBackup, restoreSegment and currentTimeline leave the repository
\* as it was: no step of theirs changes the snapshots, none of their restic
\* calls is a Backup or a DeleteSnapshots, and a caller that is between
\* invocations holds nothing of the invocation before.
\* ---------------------------------------------------------------------------
WritingCalls(calls) ==
    {i \in 1..Len(calls) : calls[i].fn \in {"Backup", "DeleteSnapshots"}}

C36_ReadOperationsLeaveStore ==
    /\ [][store' = store /\ nextId' = nextId]_vars
    /\ [](WritingCalls(last.calls) = {})
    /\ [](\A p \in Callers :
            /\ WritingCalls(inflight[p].calls) = {}
            /\ inflight[p].pc = "idle" => inflight[p] = Idle)

\* A segment has been restored from the repository of three segments and a
\* full backup, and the caller is idle again.
C36_Witness ==
    /\ last.op = "restoreSegment"
    /\ last.err = <<>>
    /\ Len(last.calls) = 3 /\ last.calls[3].fn = "RestoreFile"
    /\ store \in CleanupStores
    /\ \A p \in Callers : inflight[p] = Idle

\* ---------------------------------------------------------------------------
\* C37: an answered /wal-archive request was served from walFilePath alone:
\* the archive operation got that path, the tags of the stored segment are
\* those of the path's base name whatever walFileName says, and a request
\* whose path has an invalid base name is refused with nothing stored, also
\* when its walFileName is a valid segment name.
\* ---------------------------------------------------------------------------
ArchiveServed ==
    /\ WellFormedPost({"/wal-archive"})
    /\ Answered

PathName == Base(http.req.body.walFilePath)

C37_ArchiveNamedByPath ==
    ArchiveServed =>
        /\ last.op = "archive"
        /\ last.arg = http.req.body.walFilePath
        /\ LET parsed == ParseWALFileName(PathName) IN
           /\ parsed.err # "" =>
                 /\ http.status = StatusInternalServerError
                 /\ last.calls = <<>>
           /\ http.status = StatusOK => parsed.err = ""
           /\ last.calls # <<>> =>
                 LET tags == last.calls[1].tags IN
                 /\ last.calls[1].fn = "Backup"
                 /\ last.calls[1].path = http.req.body.walFilePath
                 /\ tags[1] = TagTypeWal
                 /\ tags[2] = PrefixTimeline \o SprintfD(parsed.seg.Timeline)
                 /\ tags[5] = PrefixWalFile \o PathName
                 /\ http.req.body.walFileName # PathName =>
                        PrefixWalFile \o http.req.body.walFileName \notin Range(tags)

\* A request naming one segment in walFileName and another in walFilePath
\* has been archived.
C37_Witness ==
    /\ ArchiveServed
    /\ http.status = StatusOK
    /\ http.req.body.walFileName = NameT1
    /\ PathName = NameT2
    /\ \E i \in 1..Len(store) : PrefixWalFile \o NameT2 \in Range(store[i].tags)

\* ---------------------------------------------------------------------------
\* C38: a POST to one of the four endpoints whose body does not decode is
\* answered 400 Bad Request, and a request to any other path is answered 404
\* Not Found; in both cases no operation of the backup or restore handler has
\* run for the request.
\* ---------------------------------------------------------------------------
UndecodablePost ==
    /\ http.phase # "idle"
    /\ http.req.path \in Endpoints
    /\ http.req.method = MethodPost
    /\ ~http.req.body.wellFormed

UnknownPath ==
    /\ http.phase # "idle"
    /\ http.req.path \notin Endpoints

NoOperationRan ==
    /\ Answered
    /\ http.invoked = <<>>
    /\ last = NoCall
    /\ \A p \in Callers : inflight[p] = Idle

Below2To32(v) == \A i \in 1..Len(v) : i > Limbs32 => v[i] = 0

ConversionErrors == {ErrInvalidTimeline, ErrInvalidLogicalID, ErrInvalidSegmentID}

C39_ConversionsNeverFail ==
    cResult # <<>> =>
        /\ cResult.err \notin ConversionErrors
        /\ LET matches == FindStringSubmatch(cName) IN
           matches # <<>> =>
              /\ cResult.err = ""
              /\ Len(cResult.seg.Timeline) = Limbs32
              /\ cResult.seg.Timeline \o Zero(Limbs64 - Limbs32)
                    = ParseUint(matches[2], 64).val
              /\ Below2To32(cResult.seg.LogicalID)
              /\ Below2To32(cResult.seg.SegmentID)

\* The name of the largest components has been parsed.
C39_Witness ==
    /\ cResult # <<>>
    /\ cName = FormatName(<<<<65535, 65535>>, <<65535, 65535>>, <<65535, 65535>>>>)
    /\ cResult.err = ""
    /\ cResult.seg.Timeline = <<65535, 65535>>
    /\ cResult.seg.SegmentID = <<65535, 65535, 0, 0>>
====
